---- MODULE Spec2Model ----
(***************************************************************************)
(* Model of the session-capture and Markdown-report renderers of           *)
(* cody-cookbook (utils/file_utils.py) and of the caller loops that feed   *)
(* them (02-chat.py, 03-tools.py, 04-context.py, 05-manual-context.py).    *)
(*                                                                         *)
(* Python values are represented as follows.                               *)
(*   str that is inspected character by character (header names, model     *)
(*       ids): a sequence of one-character strings;                        *)
(*   str that is only interpolated: a TLA+ string;                         *)
(*   dict: a function whose DOMAIN is the set of keys present;             *)
(*   list: a sequence;                                                     *)
(*   a written document: the sequence of the lines written to the file,    *)
(*       each line a record [tag, num, name, val].                         *)
(***************************************************************************)
EXTENDS Integers, Sequences, FiniteSets, TLC

VARIABLES
    renderer,               \* which save_*_to_markdown function is under call
    conversation_history,   \* 02-chat.py:150 / argument of the chat renderer
    api_calls_history,      \* 02-chat.py:153 / argument of chat and manual renderers
    api_calls_count,        \* 02-chat.py:152
    temperature,            \* 02-chat.py:148
    max_tokens,             \* 02-chat.py:149
    session_steps,          \* argument of the tool-calling renderer
    search_history,         \* argument of the context-search renderer
    tasks_or_interactions,  \* argument of the manual-context renderer
    session_metadata,       \* argument of every renderer
    model_data,             \* argument of the model-instance writer
    pc,                     \* position of the caller
    clock,                  \* datetime.now() in whole seconds
    dirExists,              \* os.path.exists("responses")
    files,                  \* contents of responses/: filename -> document
    result,                 \* outcome of the last renderer call
    cleared_lists,          \* the list objects 02-chat.py:163 has unbound
    session_count,          \* 03-tools.py:489: sessions saved so far
    fault                   \* what the operating system did to the last call

vars == << renderer, conversation_history, api_calls_history, api_calls_count,
           temperature, max_tokens, session_steps, search_history,
           tasks_or_interactions, session_metadata, model_data, pc, clock,
           dirExists, files, result, cleared_lists, session_count, fault >>

----------------------------------------------------------------------------
(* Bounds *)

MaxHeaders == 2

MaxMessages == 3

MaxApiCalls == 2

MaxSteps == 3

MaxSearches == 3

MaxTasks == 2

----------------------------------------------------------------------------
(* Python primitives *)

\* dict.get(key, default)
Get(d, k, default) == IF k \in DOMAIN d THEN d[k] ELSE default

\* str.lower() on one character
LowerChar(c) ==
    CASE c = "A" -> "a" [] c = "B" -> "b" [] c = "C" -> "c" [] c = "D" -> "d"
      [] c = "E" -> "e" [] c = "F" -> "f" [] c = "G" -> "g" [] c = "H" -> "h"
      [] c = "I" -> "i" [] c = "J" -> "j" [] c = "K" -> "k" [] c = "L" -> "l"
      [] c = "M" -> "m" [] c = "N" -> "n" [] c = "O" -> "o" [] c = "P" -> "p"
      [] c = "Q" -> "q" [] c = "R" -> "r" [] c = "S" -> "s" [] c = "T" -> "t"
      [] c = "U" -> "u" [] c = "V" -> "v" [] c = "W" -> "w" [] c = "X" -> "x"
      [] c = "Y" -> "y" [] c = "Z" -> "z" [] OTHER -> c

\* str.lower()
Lower(s) == [i \in 1..Len(s) |-> LowerChar(s[i])]

\* the `in` operator on strings: sub in s
Contains(s, sub) ==
    \E i \in 1..(Len(s) - Len(sub) + 1) : SubSeq(s, i, i + Len(sub) - 1) = sub

\* list[idx] with a 0-based, possibly negative index: does it raise IndexError?
PyIndexError(seq, idx) == idx >= Len(seq) \/ idx < -Len(seq)

\* list[idx] with a 0-based, possibly negative index
PyIndex(seq, idx) == IF idx >= 0 THEN seq[idx + 1] ELSE seq[Len(seq) + idx + 1]

\* one line of a written document
L(tag, num, name, val) == [tag |-> tag, num |-> num, name |-> name, val |-> val]

\* f"{d.get(key, placeholder)}" for a value kept character by character: the
\* value goes to the line's name, the placeholder of an absent key to its val
GetLine(tag, d, key, placeholder) ==
    IF key \in DOMAIN d THEN L(tag, 0, d[key], "") ELSE L(tag, 0, << >>, placeholder)

TOKEN == <<"t","o","k","e","n">>

AUTHORIZATION == <<"a","u","t","h","o","r","i","z","a","t","i","o","n">>

REDACTED == "[REDACTED]"

NoLine == << >>

\* the default 'unknown' of session_metadata.get('model_id', 'unknown')
UNKNOWN == <<"u","n","k","n","o","w","n">>

----------------------------------------------------------------------------
(* Redaction of request headers.  A headers dict is an ordered mapping:    *)
(* a sequence of <<name, value>> pairs with distinct names.                *)

\* a redaction test that forgets header.lower()
IsSecretHeaderCaseSensitive(header) ==
    Contains(header, TOKEN) \/ Contains(header, AUTHORIZATION)

\* the condition of the `if` that guards  value = '[REDACTED]'
IsSecretHeader(header) ==
    Contains(Lower(header), TOKEN) \/ Contains(Lower(header), AUTHORIZATION)

\* the value written for one header
RedactedValue(header, value) ==
    IF IsSecretHeader(header) THEN REDACTED ELSE value

\* for header, value in headers.items(): ... file.write(f"- `{header}: {value}`\n")
WriteHeaders(headers) ==
    [i \in 1..Len(headers) |->
        L("header", i, headers[i][1], RedactedValue(headers[i][1], headers[i][2]))]

\* the three "Token Usage" lines
WriteUsage(usage) ==
    << L("usage", 0, NoLine, "Token Usage"),
       L("prompt_tokens", 0, NoLine, Get(usage, "prompt_tokens", "N/A")),
       L("completion_tokens", 0, NoLine, Get(usage, "completion_tokens", "N/A")),
       L("total_tokens", 0, NoLine, Get(usage, "total_tokens", "N/A")) >>

\* a dict is truthy when it is not empty
Truthy(d) == DOMAIN d # {}

EmptyDict == [k \in {} |-> "N/A"]

----------------------------------------------------------------------------
(* save_chat_session_to_markdown: the body of the `with open(...)` block.  *)
(* A body returns [doc, raised]: the lines written before it ended and     *)
(* whether it ended by raising.                                            *)

\* an index that forgets the - 1
ApiCallIndexOffByOne(user_message_count) == user_message_count

\* api_call_index = user_message_count - 1
ApiCallIndex(user_message_count) == user_message_count - 1

\* if api_call_index < len(api_calls_history):
ApiCallGuard(api_call_index, api_calls) == api_call_index < Len(api_calls)

\* the "API Request" block written after a user message
ChatApiBlock(api_call, user_message_count) ==
    << L("api_request", user_message_count, NoLine, "API Request"),
       L("endpoint", user_message_count, NoLine, Get(api_call, "url", "N/A")),
       L("status_code", user_message_count, NoLine, Get(api_call, "status_code", "N/A")),
       L("response_time", user_message_count, NoLine, Get(api_call, "response_time", "N/A")),
       L("headers", user_message_count, NoLine, "Headers") >>
    \o WriteHeaders(Get(api_call, "headers", << >>))
    \o << L("request_payload", user_message_count, NoLine,
            Get(api_call, "request_payload", "{}")) >>

RECURSIVE ChatFlow(_, _, _, _, _)
\* for i, message in enumerate(conversation_history): ...
ChatFlow(conv, api_calls, i, user_message_count, doc) ==
    IF i > Len(conv) THEN [doc |-> doc, raised |-> FALSE]
    ELSE
      LET message == conv[i]
          role    == Get(message, "role", "unknown")
          content == Get(message, "content", "")
      IN
      IF role = "user" THEN
        LET n   == user_message_count + 1
            idx == ApiCallIndex(n)
            hd  == << L("user_message", n, NoLine, content) >>
        IN
        IF ApiCallGuard(idx, api_calls) THEN
          IF PyIndexError(api_calls, idx)
          THEN [doc |-> doc \o hd, raised |-> TRUE]
          ELSE ChatFlow(conv, api_calls, i + 1, n,
                        doc \o hd \o ChatApiBlock(PyIndex(api_calls, idx), n))
        ELSE ChatFlow(conv, api_calls, i + 1, n, doc \o hd)
      ELSE IF role = "assistant" THEN
        LET idx == ApiCallIndex(user_message_count)
            hd  == << L("assistant_response", user_message_count, NoLine, content) >>
            sep == << L("separator", user_message_count, NoLine, "---") >>
        IN
        IF ApiCallGuard(idx, api_calls) THEN
          IF PyIndexError(api_calls, idx)
          THEN [doc |-> doc \o hd, raised |-> TRUE]
          ELSE
            LET usage == Get(PyIndex(api_calls, idx), "usage", EmptyDict)
            IN ChatFlow(conv, api_calls, i + 1, user_message_count,
                        doc \o hd
                            \o (IF Truthy(usage) THEN WriteUsage(usage) ELSE << >>)
                            \o sep)
        ELSE ChatFlow(conv, api_calls, i + 1, user_message_count, doc \o hd \o sep)
      ELSE ChatFlow(conv, api_calls, i + 1, user_message_count, doc)

\* the whole body: header, settings, conversation flow, usage hint
ChatBody(conv, api_calls, meta, script_name) ==
    LET head == << GetLine("title", meta, "model_id", "Unknown Model"),
                   L("script", 0, NoLine, script_name),
                   L("duration", 0, NoLine, Get(meta, "duration", "N/A")),
                   L("settings", 0, NoLine, "Session Settings"),
                   GetLine("model_id", meta, "model_id", "N/A"),
                   L("temperature", 0, NoLine, Get(meta, "temperature", "N/A")),
                   L("max_tokens", 0, NoLine, Get(meta, "max_tokens", "N/A")),
                   L("total_messages", Len(conv), NoLine, "Total Messages"),
                   L("total_api_calls", 0, NoLine, Get(meta, "api_calls_count", "N/A")),
                   L("flow", 0, NoLine, "Conversation Flow") >>
        flow == ChatFlow(conv, api_calls, 1, 0, head)
    IN IF flow.raised THEN flow
       ELSE [doc |-> flow.doc \o
                     << GetLine("continue", meta, "model_id", "MODEL_ID") >>,
             raised |-> FALSE]

----------------------------------------------------------------------------
(* save_tool_calling_session_to_markdown: the body of the `with` block.    *)
(* file_utils.py imports json nowhere at module level; the function's only *)
(* `import json` is the statement at line 405, inside the initial_request  *)
(* branch under `if api_details:`.  json is therefore a local name of the  *)
(* function, bound once that statement has run; json_bound tracks it, and  *)
(* a use of json before it raises UnboundLocalError.                       *)

\* the "API Call Details" lines common to initial_request and final_response
ToolApiLines(api_details, i) ==
    << L("api_call_details", i, NoLine, "API Call Details"),
       L("endpoint", i, NoLine, Get(api_details, "url", "N/A")),
       L("status_code", i, NoLine, Get(api_details, "status_code", "N/A")),
       L("response_time", i, NoLine, Get(api_details, "response_time", "N/A")) >>

\* step_type == "initial_request"; always leaves json bound when api_details
\* is not empty
InitialRequestStep(step, i) ==
    LET api_details == Get(step, "api_details", EmptyDict)
        hd == << L("h3_initial_request", i, NoLine, Get(step, "step_number", "N/A")),
                 L("user_query", i, NoLine, Get(step, "user_query", "N/A")) >>
    IN IF Truthy(api_details)
       THEN [doc |-> hd \o ToolApiLines(api_details, i)
                        \o << L("headers", i, NoLine, "Headers") >>
                        \o WriteHeaders(Get(api_details, "headers", << >>))
                        \o << L("request_payload", i, NoLine,
                                Get(api_details, "request_payload", "{}")),
                              L("response_payload", i, NoLine,
                                Get(api_details, "response_data", "{}")) >>,
             raised |-> FALSE, json_bound |-> TRUE]
       ELSE [doc |-> hd, raised |-> FALSE, json_bound |-> FALSE]

(* The function result of one tool call (lines 435-444): a str is parsed   *)
(* with json.loads and pretty-printed, anything else is dumped.  A result *)
(* is [type, raises, text]: its Python type, the exception json.loads (a  *)
(* str) or json.dumps (an object) raises for it or "none", and its text.  *)

\* the exceptions of `except (json.JSONDecodeError, TypeError)`, line 443
CaughtByFallback(raises) == raises \in { "JSONDecodeError", "TypeError" }


\* does rendering the result end in an exception the fallback lets through?
FunctionResultRaises(function_result) ==
    function_result.raises # "none" /\ ~ CaughtByFallback(function_result.raises)

\* the line written for a result: pretty-printed, or str(result)
FunctionResultLine(function_result, j) ==
    IF function_result.raises = "none"
    THEN L("result_pretty", j, NoLine, function_result.text)
    ELSE L("result_raw", j, NoLine, function_result.text)

\* tool_call.get('function_result', ''): json.loads('') raises JSONDecodeError
NoFunctionResult == [type |-> "str", raises |-> "JSONDecodeError", text |-> ""]

RECURSIVE ToolCalls(_, _, _, _)
\* for i, tool_call in enumerate(tool_calls, 1): ...
ToolCalls(tool_calls, j, json_bound, doc) ==
    IF j > Len(tool_calls) THEN [doc |-> doc, raised |-> FALSE]
    ELSE
      LET tool_call == tool_calls[j]
          hd == << L("h4_tool_call", j, NoLine, Get(tool_call, "function_name", "Unknown")),
                   L("function", j, NoLine, Get(tool_call, "function_name", "N/A")),
                   L("call_id", j, NoLine, Get(tool_call, "call_id", "N/A")) >>
          function_result == Get(tool_call, "function_result", NoFunctionResult)
      IN IF ~json_bound
         THEN [doc |-> doc \o hd, raised |-> TRUE]
         ELSE IF FunctionResultRaises(function_result)
         THEN [doc |-> doc \o hd \o << L("function_args", j, NoLine,
                                          Get(tool_call, "function_args", "{}")) >>,
               raised |-> TRUE]
         ELSE ToolCalls(tool_calls, j + 1, json_bound,
                  doc \o hd
                      \o << L("function_args", j, NoLine,
                              Get(tool_call, "function_args", "{}")),
                            FunctionResultLine(function_result, j) >>)

\* step_type == "tool_execution"
ToolExecutionStep(step, i, json_bound) ==
    ToolCalls(Get(step, "tool_calls", << >>), 1, json_bound,
              << L("h3_tool_execution", i, NoLine, Get(step, "step_number", "N/A")) >>)

\* step_type == "final_response"
FinalResponseStep(step, i, json_bound) ==
    LET api_details == Get(step, "api_details", EmptyDict)
        usage       == Get(api_details, "usage", EmptyDict)
        ai_response == Get(step, "ai_response", "")
        hd == << L("h3_final_response", i, NoLine, Get(step, "step_number", "N/A")) >>
        det == hd \o ToolApiLines(api_details, i)
                  \o (IF Truthy(usage) THEN WriteUsage(usage) ELSE << >>)
        txt == IF ai_response # ""
               THEN << L("ai_response", i, NoLine, ai_response) >> ELSE << >>
    IN IF Truthy(api_details)
       THEN IF ~json_bound
            THEN [doc |-> det, raised |-> TRUE]
            ELSE [doc |-> det \o << L("response_payload", i, NoLine,
                                      Get(api_details, "response_data", "{}")) >>
                              \o txt,
                  raised |-> FALSE]
       ELSE [doc |-> hd \o txt, raised |-> FALSE]

\* a dispatch that refuses the kinds it does not know
OtherStepRaises(step, i) == [doc |-> << >>, raised |-> TRUE]

\* a step of any other kind: no branch of the if/elif chain matches and
\* nothing is written for it before the "---" of line 480
OtherStep(step, i) == [doc |-> << >>, raised |-> FALSE]

RECURSIVE ToolFlow(_, _, _, _)
\* for step in session_steps: dispatch on step_type, then write "---"
ToolFlow(steps, i, json_bound, doc) ==
    IF i > Len(steps) THEN [doc |-> doc, raised |-> FALSE, json_bound |-> json_bound]
    ELSE
      LET step      == steps[i]
          step_type == Get(step, "step_type", "unknown")
          sep       == << L("separator", i, NoLine, "---") >>
      IN
      IF step_type = "initial_request" THEN
        LET r == InitialRequestStep(step, i)
        IN ToolFlow(steps, i + 1, json_bound \/ r.json_bound, doc \o r.doc \o sep)
      ELSE IF step_type = "tool_execution" THEN
        LET r == ToolExecutionStep(step, i, json_bound)
        IN IF r.raised
           THEN [doc |-> doc \o r.doc, raised |-> TRUE, json_bound |-> json_bound]
           ELSE ToolFlow(steps, i + 1, json_bound, doc \o r.doc \o sep)
      ELSE IF step_type = "final_response" THEN
        LET r == FinalResponseStep(step, i, json_bound)
        IN IF r.raised
           THEN [doc |-> doc \o r.doc, raised |-> TRUE, json_bound |-> json_bound]
           ELSE ToolFlow(steps, i + 1, json_bound, doc \o r.doc \o sep)
      ELSE
        LET r == OtherStep(step, i)
        IN IF r.raised
           THEN [doc |-> doc \o r.doc, raised |-> TRUE, json_bound |-> json_bound]
           ELSE ToolFlow(steps, i + 1, json_bound, doc \o r.doc \o sep)

\* the "Available Tools" section
AvailableTools(meta) ==
    LET available_tools == Get(meta, "available_tools", << >>)
    IN IF available_tools # << >>
       THEN << L("h2_available_tools", 0, NoLine, "Available Tools") >>
            \o [k \in 1..Len(available_tools) |->
                  L("tool", k, NoLine, Get(available_tools[k], "name", "Unknown"))]
       ELSE << >>

\* the whole body: header, overview, tools, steps, conversation dump, usage hint
ToolBody(steps, meta, script_name) ==
    LET head == << GetLine("title", meta, "model_id", "Unknown Model"),
                   L("script", 0, NoLine, script_name),
                   L("duration", 0, NoLine, Get(meta, "duration", "N/A")),
                   L("overview", 0, NoLine, "Session Overview"),
                   GetLine("model_id", meta, "model_id", "N/A"),
                   L("temperature", 0, NoLine, Get(meta, "temperature", "N/A")),
                   L("max_tokens", 0, NoLine, Get(meta, "max_tokens", "N/A")),
                   L("total_api_calls", 0, NoLine, Get(meta, "total_api_calls", "N/A")),
                   L("total_tool_calls", 0, NoLine, Get(meta, "total_tool_calls", "N/A")),
                   L("user_query", 0, NoLine, Get(meta, "user_query", "N/A")) >>
                \o AvailableTools(meta)
                \o << L("flow", 0, NoLine, "Tool Calling Flow") >>
        flow == ToolFlow(steps, 1, FALSE, head)
        complete_conversation == Get(meta, "complete_conversation", "")
        tail == << GetLine("continue", meta, "model_id", "MODEL_ID") >>
    IN IF flow.raised THEN [doc |-> flow.doc, raised |-> TRUE]
       ELSE IF complete_conversation # ""
       THEN IF ~flow.json_bound
            THEN [doc |-> flow.doc \o << L("h2_complete_conversation", 0, NoLine,
                                           "Complete Conversation Context") >>,
                  raised |-> TRUE]
            ELSE [doc |-> flow.doc \o << L("h2_complete_conversation", 0, NoLine,
                                           "Complete Conversation Context"),
                                         L("conversation_json", 0, NoLine,
                                           complete_conversation) >> \o tail,
                  raised |-> FALSE]
       ELSE [doc |-> flow.doc \o tail, raised |-> FALSE]

----------------------------------------------------------------------------
(* save_context_search_session_to_markdown: the body of the `with` block.  *)

\* search.get('api_details', {}).get('response_time', 0)
ResponseTimeOf(search) == Get(Get(search, "api_details", EmptyDict), "response_time", 0)

RECURSIVE SumOver(_, _)
\* sum(f(x) for x in seq), f given as the sequence of its values
SumOver(values, i) == IF i > Len(values) THEN 0 ELSE values[i] + SumOver(values, i + 1)

\* min(..., default=0)
MinOver(values) ==
    IF values = << >> THEN 0
    ELSE CHOOSE m \in { values[i] : i \in DOMAIN values } :
            \A i \in DOMAIN values : m <= values[i]

\* max(..., default=0)
MaxOver(values) ==
    IF values = << >> THEN 0
    ELSE CHOOSE m \in { values[i] : i \in DOMAIN values } :
            \A i \in DOMAIN values : m >= values[i]

\* a mean cut down to its first decimal instead of rounded
AvgTimeTruncated(total_time, n) == (10 * total_time) \div n

\* f"{total_time / len(search_history):.1f}" (lines 586 and 591), in tenths
\* of a millisecond: the quotient rounded to the nearest tenth, a tie (which
\* is an exact binary fraction for the lengths modelled) going to the even
\* digit
AvgTime(total_time, n) ==
    LET q == (10 * total_time) \div n
        r == (10 * total_time) % n
    IN IF 2 * r > n THEN q + 1
       ELSE IF 2 * r < n THEN q
       ELSE IF q % 2 = 0 THEN q ELSE q + 1

\* a summary written whatever the history, with the zero defaults of lines
\* 586, 592 and 593 for an empty one
PerformanceSummaryUnguarded(history) ==
    LET times  == [i \in DOMAIN history |-> ResponseTimeOf(history[i])]
        counts == [i \in DOMAIN history |-> Len(Get(history[i], "results", << >>))]
    IN << L("h2_performance", 0, NoLine, "Performance Summary"),
          L("total_results", SumOver(counts, 1), NoLine, "Total Results Found"),
          L("total_time", SumOver(times, 1), NoLine, "Total API Response Time"),
          L("average", IF history # << >>
                       THEN AvgTime(SumOver(times, 1), Len(history)) ELSE 0,
            NoLine, "Average Response Time"),
          L("fastest", MinOver(times), NoLine, "Fastest Query"),
          L("slowest", MaxOver(times), NoLine, "Slowest Query") >>

\* the "Performance Summary" section, written only for a non-empty history
PerformanceSummary(history) ==
    LET times  == [i \in DOMAIN history |-> ResponseTimeOf(history[i])]
        counts == [i \in DOMAIN history |-> Len(Get(history[i], "results", << >>))]
    IN IF history # << >>
       THEN << L("h2_performance", 0, NoLine, "Performance Summary"),
               L("total_results", SumOver(counts, 1), NoLine, "Total Results Found"),
               L("total_time", SumOver(times, 1), NoLine, "Total API Response Time"),
               L("average", AvgTime(SumOver(times, 1), Len(history)), NoLine,
                 "Average Response Time"),
               L("fastest", MinOver(times), NoLine, "Fastest Query"),
               L("slowest", MaxOver(times), NoLine, "Slowest Query") >>
       ELSE << >>

\* the code block of one result: one numbered line per line of the chunk
CodeLines(content, start_line) ==
    IF content # << >>
    THEN << L("code", 0, NoLine, "Code") >>
         \o [k \in 1..Len(content) |-> L("code_line", start_line + k - 1, NoLine, content[k])]
    ELSE << >>

\* one "Result j" entry
ResultEntry(res, j) ==
    LET blob == Get(res, "blob", EmptyDict)
        start_line == Get(res, "startLine", 0)
    IN << L("result", j, NoLine, Get(Get(blob, "repository", EmptyDict), "name", "Unknown")),
          L("file", j, NoLine, Get(blob, "path", "Unknown")),
          L("lines_from", start_line, NoLine, "Lines"),
          L("lines_to", Get(res, "endLine", 0), NoLine, "Lines") >>
       \o CodeLines(Get(res, "chunkContent", << >>), start_line)
       \o << L("result_separator", j, NoLine, "---") >>

\* a loop that stops after the first result
ResultEntriesFirstOnly(results, j) ==
    IF j > Len(results) THEN << >> ELSE ResultEntry(results[j], j)

RECURSIVE ResultEntries(_, _)
\* for j, result in enumerate(results, 1): ...
ResultEntries(results, j) ==
    IF j > Len(results) THEN << >>
    ELSE ResultEntry(results[j], j) \o ResultEntries(results, j + 1)

\* one "### i. Search" block
SearchBlock(search, i) ==
    LET query         == Get(search, "query", "Unknown")
        results       == Get(search, "results", << >>)
        api_details   == Get(search, "api_details", EmptyDict)
        search_params == Get(search, "search_params", EmptyDict)
        headers       == Get(api_details, "headers", << >>)
    IN << L("h3_search", i, NoLine, query),
          L("query", i, NoLine, query),
          L("code_results", i, NoLine, Get(search_params, "code_results", "N/A")),
          L("text_results", i, NoLine, Get(search_params, "text_results", "N/A")),
          L("file_patterns", i, NoLine, Get(search_params, "file_patterns", "None")),
          L("version", i, NoLine, Get(search_params, "version", "N/A")),
          L("status_code", i, NoLine, Get(api_details, "status_code", "N/A")),
          L("response_time", i, NoLine,
            IF "response_time" \in DOMAIN api_details
            THEN ToString(api_details.response_time) ELSE "N/A"),
          L("results_found", Len(results), NoLine, "Results Found") >>
       \o (IF headers # << >>
           THEN << L("headers", i, NoLine, "Headers") >> \o WriteHeaders(headers)
           ELSE << >>)
       \o (IF Get(api_details, "request_payload", "") # ""
           THEN << L("request_payload", i, NoLine, api_details.request_payload) >>
           ELSE << >>)
       \o (IF results # << >>
           THEN << L("h4_results", Len(results), NoLine, "Search Results") >>
                \o ResultEntries(results, 1)
           ELSE << L("h4_results", 0, NoLine, "Search Results"),
                   L("no_results", i, NoLine, "No results found for this query.") >>)
       \o << L("search_separator", i, NoLine, "=====") >>

RECURSIVE SearchBlocks(_, _)
\* for i, search in enumerate(search_history, 1): ...
SearchBlocks(history, i) ==
    IF i > Len(history) THEN << >>
    ELSE SearchBlock(history[i], i) \o SearchBlocks(history, i + 1)

RECURSIVE TranscriptEntries(_, _)
\* for i, message in enumerate(conversation_history, 1): system, user and
\* assistant messages get a heading, any other role is skipped
TranscriptEntries(conv, i) ==
    IF i > Len(conv) THEN << >>
    ELSE
      LET role    == Get(conv[i], "role", "unknown")
          content == Get(conv[i], "content", "")
      IN (IF role \in {"system", "user", "assistant"}
          THEN << L("h3_" \o role, i, NoLine, content) >> ELSE << >>)
         \o TranscriptEntries(conv, i + 1)

\* a "Conversation History" section written whenever the flag is set
TranscriptWheneverFlagged(meta) ==
    LET conv == Get(meta, "conversation_history", << >>)
    IN IF Get(meta, "includes_conversation", FALSE)
       THEN << L("h2_conversation", Len(conv), NoLine, "Conversation History") >>
            \o TranscriptEntries(conv, 1)
            \o << L("conversation_separator", 0, NoLine, "---") >>
       ELSE << >>

\* the "Conversation History" section
Transcript(meta) ==
    LET conv == Get(meta, "conversation_history", << >>)
    IN IF Get(meta, "includes_conversation", FALSE) /\ conv # << >>
       THEN << L("h2_conversation", Len(conv), NoLine, "Conversation History") >>
            \o TranscriptEntries(conv, 1)
            \o << L("conversation_separator", 0, NoLine, "---") >>
       ELSE << >>

RECURSIVE JsonDumpsSearches(_, _)
\* json.dumps(search_history, ...): every key and value of every record as it
\* is stored, the request headers among them
JsonDumpsSearches(history, i) ==
    IF i > Len(history) THEN << >>
    ELSE
      LET api_details == Get(history[i], "api_details", EmptyDict)
          headers     == Get(api_details, "headers", << >>)
      IN << L("raw_query", i, NoLine, Get(history[i], "query", "")) >>
         \o [k \in 1..Len(headers) |-> L("raw_header", k, headers[k][1], headers[k][2])]
         \o << L("raw_request_payload", i, NoLine, Get(api_details, "request_payload", "")),
               L("raw_results", Len(Get(history[i], "results", << >>)), NoLine, "results") >>
         \o JsonDumpsSearches(history, i + 1)

\* the "Raw API Response Data" section
RawData(history, meta) ==
    IF history # << >> /\ Get(meta, "include_raw_data", FALSE)
    THEN << L("h2_raw_data", 0, NoLine, "Raw API Response Data") >>
         \o JsonDumpsSearches(history, 1)
    ELSE << >>

\* the "Default Repositories" lines
DefaultRepos(meta) ==
    LET repos == Get(meta, "default_repos", << >>)
    IN [k \in 1..Len(repos) |-> L("repo", k, NoLine, Get(repos[k], "name", "Unknown"))]

\* the whole body
ContextBody(history, meta, script_name) ==
    [doc |-> << GetLine("title", meta, "mode", "Unknown Mode"),
                L("script", 0, NoLine, script_name),
                L("duration", 0, NoLine, Get(meta, "duration", "N/A")),
                L("settings", 0, NoLine, "Session Settings"),
                GetLine("mode", meta, "mode", "N/A"),
                L("total_searches", Len(history), NoLine, "Total Searches") >>
             \o DefaultRepos(meta)
             \o << L("endpoint", 0, NoLine, Get(meta, "endpoint", "N/A")) >>
             \o PerformanceSummary(history)
             \o << L("h2_history", 0, NoLine, "Search History & Results") >>
             \o SearchBlocks(history, 1)
             \o Transcript(meta)
             \o << L("continue", 0, NoLine, "Continue Searching") >>
             \o RawData(history, meta),
     raised |-> FALSE]

----------------------------------------------------------------------------
(* save_manual_context_session_to_markdown and its helpers *)

REFACTORING_EXAMPLES == <<"r","e","f","a","c","t","o","r","i","n","g","_","e","x","a","m","p","l","e","s">>

INTERACTIVE_CONTEXT == <<"i","n","t","e","r","a","c","t","i","v","e","_","c","o","n","t","e","x","t">>

CUSTOM_CONTEXT == <<"c","u","s","t","o","m","_","c","o","n","t","e","x","t">>

ERROR_BODY_LIMIT == 200

\* a slice that takes one character too many
SliceInclusive(s, stop) == SubSeq(s, 1, IF Len(s) < stop + 1 THEN Len(s) ELSE stop + 1)

\* s[:stop] for a stop >= 0
Slice(s, stop) == SubSeq(s, 1, IF Len(s) < stop THEN Len(s) ELSE stop)

\* error.get('response_body', 'N/A')[:200] followed by "...": the line holds
\* the characters written in its name and the ellipsis in its val
ErrorLines(error) ==
    << L("error", 0, NoLine, "Error Details"),
       L("error_type", 0, NoLine, Get(error, "type", "N/A")),
       L("error_message", 0, NoLine, Get(error, "message", "N/A")) >>
    \o (IF "status_code" \in DOMAIN error
        THEN << L("error_status_code", 0, NoLine, error.status_code) >> ELSE << >>)
    \o (IF "response_body" \in DOMAIN error
        THEN << L("error_response_body", 0,
                  Slice(error.response_body, ERROR_BODY_LIMIT), "...") >>
        ELSE << >>)

\* a helper that writes the headers list and the payload block whether or
\* not the record has the keys
WriteApiCallDetailsAlways(api_call, call_number) ==
    LET usage == Get(api_call, "usage", EmptyDict)
    IN << L("api_request", call_number, NoLine, "API Request"),
          L("endpoint", call_number, NoLine, Get(api_call, "url", "N/A")),
          L("status_code", call_number, NoLine, Get(api_call, "status_code", "N/A")),
          L("response_time", call_number, NoLine, Get(api_call, "response_time", "N/A")),
          L("context_size", call_number, NoLine, Get(api_call, "context_size", "N/A")),
          L("context_description", call_number, NoLine,
            Get(api_call, "context_description", "N/A")),
          L("headers", call_number, NoLine, "Request Headers") >>
       \o WriteHeaders(Get(api_call, "headers", << >>))
       \o << L("request_payload", call_number, NoLine,
                Get(api_call, "request_payload", "N/A")) >>
       \o (IF Truthy(usage) THEN WriteUsage(usage) ELSE << >>)
       \o (IF "error" \in DOMAIN api_call THEN ErrorLines(api_call.error) ELSE << >>)

\* _write_api_call_details(file, api_call, call_number)
WriteApiCallDetails(api_call, call_number) ==
    LET usage == Get(api_call, "usage", EmptyDict)
    IN << L("api_request", call_number, NoLine, "API Request"),
          L("endpoint", call_number, NoLine, Get(api_call, "url", "N/A")),
          L("status_code", call_number, NoLine, Get(api_call, "status_code", "N/A")),
          L("response_time", call_number, NoLine, Get(api_call, "response_time", "N/A")),
          L("context_size", call_number, NoLine, Get(api_call, "context_size", "N/A")),
          L("context_description", call_number, NoLine,
            Get(api_call, "context_description", "N/A")) >>
       \o (IF "headers" \in DOMAIN api_call
           THEN << L("headers", call_number, NoLine, "Request Headers") >>
                \o WriteHeaders(api_call.headers)
           ELSE << >>)
       \o (IF "request_payload" \in DOMAIN api_call
           THEN << L("request_payload", call_number, NoLine, api_call.request_payload) >>
           ELSE << >>)
       \o (IF Truthy(usage) THEN WriteUsage(usage) ELSE << >>)
       \o (IF "error" \in DOMAIN api_call THEN ErrorLines(api_call.error) ELSE << >>)

\* a test for the key instead of for a truthy value
ResponseLinesWhenPresent(item, key, tag) ==
    IF key \in DOMAIN item
    THEN << L(tag, 0, NoLine, tag), L("response_text", 0, NoLine, item[key]) >>
    ELSE << L(tag, 0, NoLine, "No response received") >>

\* the response of a task or interaction, or the "No response received"
\* marker: `response = item.get(key)`, `if response:`.  A response of None
\* (what the scripts store for a failed call) is modelled by the absent
\* key, which .get reads as None too.
ResponseLines(item, key, tag) ==
    LET response == Get(item, key, "")
    IN IF response # ""
       THEN << L(tag, 0, NoLine, tag), L("response_text", 0, NoLine, response) >>
       ELSE << L(tag, 0, NoLine, "No response received") >>

\* if i < len(api_calls_history): _write_api_call_details(...), i 0-based
AlignedApiCall(api_calls, i, call_number) ==
    IF i < Len(api_calls)
    THEN WriteApiCallDetails(api_calls[i + 1], call_number)
    ELSE << >>

RECURSIVE WriteRefactoringTasks(_, _, _)
\* _write_refactoring_tasks(file, tasks, api_calls_history), i 0-based
WriteRefactoringTasks(tasks, api_calls, i) ==
    IF i >= Len(tasks) THEN << >>
    ELSE
      LET task     == tasks[i + 1]
          task_num == Get(task, "task_number", i + 1)
      IN << L("h3_task", task_num, NoLine, Get(task, "task_name", "Unknown Task")),
            L("status", task_num, NoLine,
              IF Get(task, "completed", FALSE) THEN "Completed" ELSE "Failed"),
            L("prompt", task_num, NoLine, Get(task, "prompt", "N/A")) >>
         \o AlignedApiCall(api_calls, i, task_num)
         \o ResponseLines(task, "response", "AI Response")
         \o << L("separator", task_num, NoLine, "---") >>
         \o WriteRefactoringTasks(tasks, api_calls, i + 1)

RECURSIVE WriteInteractiveSession(_, _, _)
\* _write_interactive_session(file, interactions, api_calls_history), i 0-based
WriteInteractiveSession(interactions, api_calls, i) ==
    IF i >= Len(interactions) THEN << >>
    ELSE
      LET interaction == interactions[i + 1]
      IN << L("h3_interaction", i + 1, NoLine, Get(interaction, "timestamp", "N/A")),
            L("context", Get(interaction, "context_size", 0), NoLine,
              Get(interaction, "context_description", "N/A")),
            L("status", i + 1, NoLine,
              IF Get(interaction, "success", FALSE) THEN "Success" ELSE "Failed"),
            L("user_question", i + 1, NoLine, Get(interaction, "user_question", "N/A")) >>
         \o AlignedApiCall(api_calls, i, i + 1)
         \o ResponseLines(interaction, "assistant_response", "Assistant Response")
         \o << L("separator", i + 1, NoLine, "---") >>
         \o WriteInteractiveSession(interactions, api_calls, i + 1)

\* _write_custom_context_analysis(file, tasks, api_calls_history)
WriteCustomContextAnalysis(tasks, api_calls) ==
    IF tasks # << >>
    THEN LET task == tasks[1]
         IN << L("h3_custom", 1, NoLine, Get(task, "task_name", "Custom Analysis")),
               L("status", 1, NoLine,
                 IF Get(task, "completed", FALSE) THEN "Completed" ELSE "Failed") >>
            \o (IF "code_content" \in DOMAIN task
                THEN << L("code_content", 1, NoLine, task.code_content) >> ELSE << >>)
            \o << L("prompt", 1, NoLine, Get(task, "prompt", "N/A")) >>
            \o (IF api_calls # << >> THEN WriteApiCallDetails(api_calls[1], 1) ELSE << >>)
            \o ResponseLines(task, "response", "AI Analysis")
    ELSE << >>

\* the mode-specific settings lines (lines 760-774)
ModeSettings(mode, meta) ==
    LET context_metadata == Get(meta, "context_metadata", EmptyDict)
    IN IF mode = REFACTORING_EXAMPLES
       THEN << L("total_tasks", 0, NoLine, Get(meta, "total_tasks", "N/A")),
               L("completed_tasks", 0, NoLine, Get(meta, "completed_tasks", "N/A")),
               L("context_file", 0, NoLine, Get(context_metadata, "context_file", "N/A")),
               L("context_size", 0, NoLine, Get(context_metadata, "context_size", "N/A")) >>
       ELSE IF mode = INTERACTIVE_CONTEXT
       THEN << L("total_interactions", 0, NoLine, Get(meta, "total_interactions", "N/A")),
               L("context_switches", 0, NoLine,
                 Get(meta, "total_context_switches", "N/A")) >>
       ELSE IF mode = CUSTOM_CONTEXT
       THEN << L("custom_type", 0, NoLine, Get(meta, "custom_type", "N/A")),
               L("context_size", 0, NoLine, Get(context_metadata, "context_size", "N/A")) >>
       ELSE << >>

\* one context switch (lines 785-790)
SwitchLines(switch, k) ==
    << L("h4_switch", k, NoLine, Get(switch, "action", "Unknown Action")),
       L("switch_action", k, NoLine, Get(switch, "action", "N/A")) >>
    \o (IF "file_path" \in DOMAIN switch
        THEN << L("switch_file_path", k, NoLine, switch.file_path) >> ELSE << >>)
    \o << L("switch_context_size", k, NoLine, Get(switch, "context_size", "N/A")),
          L("switch_description", k, NoLine, Get(switch, "description", "N/A")) >>

RECURSIVE SwitchEntries(_, _)
SwitchEntries(switches, k) ==
    IF k > Len(switches) THEN << >>
    ELSE SwitchLines(switches[k], k) \o SwitchEntries(switches, k + 1)

\* the "Context Management" section (lines 778-792)
ContextManagement(mode, meta) ==
    IF mode = INTERACTIVE_CONTEXT /\ "context_switches" \in DOMAIN meta
    THEN << L("h2_context_management", 0, NoLine, "Context Management") >>
         \o (IF meta.context_switches # << >>
             THEN << L("h3_context_switches", 0, NoLine, "Context Switches") >>
                  \o SwitchEntries(meta.context_switches, 1)
             ELSE << L("no_switches", 0, NoLine, "No context switches recorded.") >>)
    ELSE << >>

\* the task section selected by mode (lines 794-803)
TaskSection(mode, items, api_calls) ==
    IF mode = REFACTORING_EXAMPLES
    THEN << L("h2_refactoring_tasks", 0, NoLine, "Refactoring Tasks") >>
         \o WriteRefactoringTasks(items, api_calls, 0)
    ELSE IF mode = INTERACTIVE_CONTEXT
    THEN << L("h2_interactive_session", 0, NoLine, "Interactive Session") >>
         \o WriteInteractiveSession(items, api_calls, 0)
    ELSE IF mode = CUSTOM_CONTEXT
    THEN << L("h2_custom_context", 0, NoLine, "Custom Context Analysis") >>
         \o WriteCustomContextAnalysis(items, api_calls)
    ELSE << >>

\* the whole body
ManualBody(items, api_calls, meta, script_name) ==
    LET mode == Get(meta, "mode", NoLine)
    IN [doc |-> << GetLine("title", meta, "model_id", "Unknown Model"),
                   L("script", 0, NoLine, script_name),
                   GetLine("mode", meta, "mode", "N/A"),
                   L("duration", 0, NoLine, Get(meta, "duration", "N/A")),
                   L("settings", 0, NoLine, "Session Settings"),
                   GetLine("model_id", meta, "model_id", "N/A"),
                   L("total_api_calls", 0, NoLine, Get(meta, "api_calls_count", "N/A")) >>
                \o ModeSettings(mode, meta)
                \o ContextManagement(mode, meta)
                \o TaskSection(mode, items, api_calls)
                \o << GetLine("continue", meta, "model_id", "MODEL_ID") >>,
        raised |-> FALSE]

----------------------------------------------------------------------------
(* Filesystem sink *)

\* str.replace(old, new) for a one- or two-character `old`, left to right
RECURSIVE Replace(_, _, _)
Replace(s, old, new) ==
    IF Len(s) < Len(old) THEN s
    ELSE IF SubSeq(s, 1, Len(old)) = old
         THEN new \o Replace(SubSeq(s, Len(old) + 1, Len(s)), old, new)
         ELSE << s[1] >> \o Replace(Tail(s), old, new)

\* the value None where a str is expected
NONE == << "None" >>

\* what a qualifier is when building it raised AttributeError
ATTRIBUTE_ERROR == << "AttributeError" >>

\* a sanitizer that forgets the path separator
SanitizeColonsOnly(model_id) ==
    IF model_id = NONE THEN ATTRIBUTE_ERROR
    ELSE Replace(model_id, <<":", ":">>, <<"_">>)

\* model_id.replace('::', '_').replace('/', '_'); None has no replace
Sanitize(model_id) ==
    IF model_id = NONE THEN ATTRIBUTE_ERROR
    ELSE Replace(Replace(model_id, <<":", ":">>, <<"_">>), <<"/">>, <<"_">>)

\* f"{timestamp}_{script_name}_{qualifier}....md": the parts that make the name
Filename(timestamp, script_name, qualifiers) ==
    [timestamp |-> timestamp, script_name |-> script_name, qualifiers |-> qualifiers]

\* a helper that calls os.makedirs without looking: FileExistsError for a
\* directory that is there
EnsureResponsesDirectoryUnchecked(exists, io) ==
    IF exists \/ io.kind = "mkdir_error"
    THEN [dirExists |-> exists, raised |-> TRUE, created |-> FALSE,
          responses_dir |-> ""]
    ELSE [dirExists |-> TRUE, raised |-> FALSE, created |-> TRUE,
          responses_dir |-> "responses"]

\* _ensure_responses_directory(): os.makedirs runs only when the directory is
\* absent, and an error it raises is not caught
EnsureResponsesDirectory(exists, io) ==
    IF exists
    THEN [dirExists |-> TRUE, raised |-> FALSE, created |-> FALSE,
          responses_dir |-> "responses"]
    ELSE IF io.kind = "mkdir_error"
         THEN [dirExists |-> FALSE, raised |-> TRUE, created |-> FALSE,
               responses_dir |-> ""]
         ELSE [dirExists |-> TRUE, raised |-> FALSE, created |-> TRUE,
               responses_dir |-> "responses"]

\* open(filepath, 'w') creates or truncates the file; each write appends
WriteFile(fs, filename, doc) ==
    [f \in DOMAIN fs \cup {filename} |-> IF f = filename THEN doc ELSE fs[f]]

\* building the filename raised, outside the try block
FilenameRaises(filename) ==
    \E q \in 1..Len(filename.qualifiers) : filename.qualifiers[q] = ATTRIBUTE_ERROR

\* a qualifier that holds a path separator makes the name designate a file in
\* a directory below responses/, which no code creates
HasSeparator(filename) ==
    \E q \in 1..Len(filename.qualifiers) : Contains(filename.qualifiers[q], << "/" >>)

\* open(filepath, 'w') raises: the operating system refuses, or the parent
\* directory of the file does not exist
OpenRaises(filename, io) == io.kind = "open_error" \/ HasSeparator(filename)

\* the part of body.doc on disk when a write raises OSError after io.cut lines
Written(body, io) ==
    IF io.kind = "write_error" /\ io.cut < Len(body.doc)
    THEN [doc |-> SubSeq(body.doc, 1, io.cut), raised |-> TRUE]
    ELSE body

\* The skeleton shared by the save_*_to_markdown functions:
\*     responses_dir = _ensure_responses_directory()
\*     filename = ...
\*     try:
\*         with open(filepath, 'w') as file: <body>
\*         return filepath
\*     except Exception: return None
\* returned is "path", "None" or "raised" (the exception reached the caller).
SaveToMarkdown(exists, fs, filename, body, io) ==
    LET dir == EnsureResponsesDirectory(exists, io)
        out == Written(body, io)
    IN IF dir.raised \/ FilenameRaises(filename)
       THEN [returned |-> "raised", path |-> << >>, dirExists |-> dir.dirExists,
             responses_dir |-> dir.responses_dir,
             files |-> fs, doc |-> << >>]
       ELSE IF OpenRaises(filename, io)
       THEN [returned |-> "None", path |-> << >>, dirExists |-> dir.dirExists,
             responses_dir |-> dir.responses_dir,
             files |-> fs, doc |-> << >>]
       ELSE [returned |-> IF out.raised THEN "None" ELSE "path",
             path |-> IF out.raised THEN << >> ELSE << filename >>,
             dirExists |-> dir.dirExists,
             responses_dir |-> dir.responses_dir,
             files |-> WriteFile(fs, filename, out.doc),
             doc |-> out.doc]

\* f"{timestamp}_{script_name}_{model_id_safe}.md" (lines 136-137)
ModelInstanceFilename(data, script_name, now) ==
    Filename(now, script_name, << Sanitize(Get(data, "id", UNKNOWN)) >>)

\* f"{timestamp}_{script_name}_{model_safe}.md" (lines 228-231)
ChatFilename(meta, script_name, now) ==
    Filename(now, script_name, << Sanitize(Get(meta, "model_id", UNKNOWN)) >>)

\* f"{timestamp}_{script_name}_{model_safe}.md" (lines 343-346)
ToolFilename(meta, script_name, now) ==
    Filename(now, script_name, << Sanitize(Get(meta, "model_id", UNKNOWN)) >>)

\* f"{timestamp}_{script_name}_{mode}.md" (lines 559-562): the mode goes into
\* the name as it is
ContextFilename(meta, script_name, now) ==
    Filename(now, script_name, << Get(meta, "mode", UNKNOWN) >>)

\* f"{timestamp}_{script_name}_{mode}_{model_safe}.md" (lines 737-741): the
\* mode as it is, then the model id
ManualFilename(meta, script_name, now) ==
    Filename(now, script_name,
             << Get(meta, "mode", UNKNOWN), Sanitize(Get(meta, "model_id", UNKNOWN)) >>)

RECURSIVE SplitFrom(_, _, _)
\* str.split(sep) of what follows `part`, the piece collected so far
SplitFrom(s, sep, part) ==
    IF Len(s) < Len(sep) THEN << part \o s >>
    ELSE IF SubSeq(s, 1, Len(sep)) = sep
         THEN << part >> \o SplitFrom(SubSeq(s, Len(sep) + 1, Len(s)), sep, << >>)
         ELSE SplitFrom(Tail(s), sep, Append(part, s[1]))

\* model_id.split('::')
Split(s, sep) == SplitFrom(s, sep, << >>)

\* the "Model ID Breakdown" section (lines 168-176)
ModelIdBreakdown(model_id) ==
    LET parts == Split(model_id, << ":", ":" >>)
    IN IF Contains(model_id, << ":", ":" >>) /\ Len(parts) = 3
       THEN << L("h2_breakdown", 0, NoLine, "Model ID Breakdown"),
               L("provider", 0, parts[1], ""),
               L("api_version", 0, parts[2], ""),
               L("model_name", 0, parts[3], "") >>
       ELSE << >>

\* save_model_instance_to_markdown: the body of the `with open(...)` block
ModelInstanceBody(data, script_name) ==
    [doc |-> << GetLine("title", data, "id", "Unknown"),
                L("script", 0, NoLine, script_name),
                L("h2_information", 0, NoLine, "Model Information"),
                GetLine("model_id", data, "id", "N/A"),
                L("object", 0, NoLine, Get(data, "object", "N/A")),
                L("owned_by", 0, NoLine, Get(data, "owned_by", "N/A")),
                L("created", 0, NoLine, Get(data, "created", "N/A")),
                L("h2_usage", 0, NoLine, "Usage Examples"),
                GetLine("chat_example", data, "id", "MODEL_ID"),
                GetLine("tools_example", data, "id", "MODEL_ID"),
                GetLine("manual_example", data, "id", "MODEL_ID") >>
             \o ModelIdBreakdown(Get(data, "id", << >>))
             \o << L("h2_raw", 0, NoLine, "Raw API Response"),
                   GetLine("raw_id", data, "id", "") >>,
     raised |-> FALSE]

\* save_model_instance_to_markdown
SaveModelInstanceToMarkdown(data, script_name, now, exists, fs, io) ==
    SaveToMarkdown(exists, fs, ModelInstanceFilename(data, script_name, now),
                   ModelInstanceBody(data, script_name), io)

\* save_chat_session_to_markdown
SaveChatSessionToMarkdown(conv, api_calls, meta, script_name, now, exists, fs, io) ==
    SaveToMarkdown(exists, fs, ChatFilename(meta, script_name, now),
                   ChatBody(conv, api_calls, meta, script_name), io)

\* save_tool_calling_session_to_markdown
SaveToolCallingSessionToMarkdown(steps, meta, script_name, now, exists, fs, io) ==
    SaveToMarkdown(exists, fs, ToolFilename(meta, script_name, now),
                   ToolBody(steps, meta, script_name), io)

\* save_context_search_session_to_markdown
SaveContextSearchSessionToMarkdown(history, meta, script_name, now, exists, fs, io) ==
    SaveToMarkdown(exists, fs, ContextFilename(meta, script_name, now),
                   ContextBody(history, meta, script_name), io)

\* save_manual_context_session_to_markdown
SaveManualContextSessionToMarkdown(items, api_calls, meta, script_name, now, exists, fs, io) ==
    SaveToMarkdown(exists, fs, ManualFilename(meta, script_name, now),
                   ManualBody(items, api_calls, meta, script_name), io)

----------------------------------------------------------------------------
(* Inputs of the renderers *)

\* all sequences over S of length at most n
SeqsUpTo(S, n) == UNION { [1..k -> S] : k \in 0..n }

RECURSIVE ListsOfLen(_, _)
\* the lists of length k whose i-th element is drawn from sets[i]
ListsOfLen(sets, k) ==
    IF k = 0 THEN { << >> }
    ELSE { Append(q, x) : q \in ListsOfLen(sets, k - 1), x \in sets[k] }

\* the lists of length at most Len(sets) whose i-th element is drawn from sets[i]
ListsFrom(sets) == UNION { ListsOfLen(sets, k) : k \in 0..Len(sets) }

\* dict union, g winning
Merge(f, g) ==
    [k \in DOMAIN f \cup DOMAIN g |-> IF k \in DOMAIN g THEN g[k] ELSE f[k]]

H_AUTHORIZATION == <<"A","u","t","h","o","r","i","z","a","t","i","o","n">>

H_X_AUTH_TOKEN == <<"X","-","A","u","t","h","-","T","O","K","E","N">>

H_ACCEPT == <<"A","c","c","e","p","t">>

H_X_REQUESTED_WITH == <<"X","-","R","e","q","u","e","s","t","e","d","-","W","i","t","h">>

HeaderNames == { H_AUTHORIZATION, H_X_AUTH_TOKEN, H_ACCEPT, H_X_REQUESTED_WITH }

\* the value each request header carries (02-chat.py:48-53)
HeaderValue(name) ==
    CASE name = H_AUTHORIZATION    -> "token sgp_s3cr3t"
      [] name = H_X_AUTH_TOKEN     -> "sgp_0th3r"
      [] name = H_ACCEPT           -> "application/json"
      [] name = H_X_REQUESTED_WITH -> "cody-cookbook"

\* headers dicts of at most MaxHeaders entries, in every insertion order
HeaderDicts ==
    { [i \in DOMAIN names |-> << names[i], HeaderValue(names[i]) >>] :
        names \in { q \in SeqsUpTo(HeaderNames, MaxHeaders) :
                      \A i, j \in DOMAIN q : i # j => q[i] # q[j] } }

\* the headers key of an api-call record: absent, or one of the dicts
HeaderOptions == { EmptyDict } \cup { [headers |-> h] : h \in HeaderDicts }

\* the usage key of the i-th api-call record
UsageOf(i) == [usage |-> [prompt_tokens     |-> ToString(10 * i),
                          completion_tokens |-> ToString(10 * i + 1),
                          total_tokens      |-> ToString(20 * i + 1)]]

\* the i-th api-call record of a session, without its optional keys
ApiCallBase(i) == [url             |-> "https://sg.test/.api/" \o ToString(i),
                   status_code     |-> "200",
                   response_time   |-> ToString(100 * i),
                   request_payload |-> "payload " \o ToString(i)]

\* api_calls_history lists: record i is ApiCallBase(i) with the headers option
\* h and, where has_usage[i], its usage
ApiCallLists(h) ==
    { [i \in DOMAIN has_usage |->
          Merge(Merge(ApiCallBase(i), h),
                IF has_usage[i] THEN UsageOf(i) ELSE EmptyDict)] :
        has_usage \in SeqsUpTo(BOOLEAN, MaxApiCalls) }

Roles == { "user", "assistant", "system" }

\* conversation_history lists: message i has content "message i"
Conversations ==
    { [i \in DOMAIN roles |-> [role |-> roles[i], content |-> "message " \o ToString(i)]] :
        roles \in SeqsUpTo(Roles, MaxMessages) }

MODEL_ID == <<"a",":",":","v","1",":",":","m","/","x">>

ChatMetadata == [model_id |-> MODEL_ID, temperature |-> "0.7", max_tokens |-> "4000",
                 duration |-> "1m 5s", api_calls_count |-> "2"]

\* the request headers the scripts send (02-chat.py:48-53)
DefaultHeaders ==
    [headers |-> << << H_ACCEPT, HeaderValue(H_ACCEPT) >>,
                    << H_AUTHORIZATION, HeaderValue(H_AUTHORIZATION) >>,
                    << H_X_REQUESTED_WITH, HeaderValue(H_X_REQUESTED_WITH) >> >>]

\* api_details of a tool-calling step
ToolApiDetails(i, h) ==
    Merge(Merge(Merge(ApiCallBase(i), h), UsageOf(i)),
          [response_data |-> "response " \o ToString(i)])

\* function_result values: a JSON str, a str that is no JSON, a serializable
\* object, an object json.dumps rejects
FunctionResults ==
    { [type |-> "str",    raises |-> "none",            text |-> "{\"temp\": 21}"],
      [type |-> "str",    raises |-> "JSONDecodeError", text |-> "Error: boom"],
      [type |-> "str",    raises |-> "RecursionError",  text |-> "[[[[...deeply nested"],
      [type |-> "object", raises |-> "none",            text |-> "{\"ok\": true}"],
      [type |-> "object", raises |-> "TypeError",       text |-> "{1, 2}"],
      [type |-> "object", raises |-> "ValueError",      text |-> "{'self': {...}}"] }

ToolCallRecord == [function_name |-> "get_current_time", function_args |-> "{}",
                   call_id |-> "call_1"]

\* the steps a session may hold at position i
StepsAt(i, h) ==
    { [step_number |-> ToString(i), step_type |-> "initial_request",
       user_query |-> "What time is it?", api_details |-> ToolApiDetails(i, h)],
      [step_number |-> ToString(i), step_type |-> "initial_request",
       user_query |-> "What time is it?"],
      [step_number |-> ToString(i), step_type |-> "tool_execution",
       tool_calls |-> << ToolCallRecord >>],
      [step_number |-> ToString(i), step_type |-> "final_response",
       ai_response |-> "It is noon.", api_details |-> ToolApiDetails(i, h)],
      [step_number |-> ToString(i), step_type |-> "final_response",
       ai_response |-> "It is noon."],
      [step_number |-> ToString(i), step_type |-> "debug"] }
    \cup { [step_number |-> ToString(i), step_type |-> "tool_execution",
            tool_calls |-> << Merge(ToolCallRecord, [function_result |-> r]) >>] :
              r \in FunctionResults }

StepLists(h) == ListsFrom([i \in 1..MaxSteps |-> StepsAt(i, h)])

ToolMetadata ==
    [model_id |-> MODEL_ID, temperature |-> "0.7", max_tokens |-> "4000",
     duration |-> "0m 3s", total_api_calls |-> "2", total_tool_calls |-> "1",
     user_query |-> "What time is it?",
     available_tools |-> << [name |-> "get_current_time", description |-> "time"] >>]

ToolMetadatas ==
    { ToolMetadata, Merge(ToolMetadata, [complete_conversation |-> "[messages]"]) }

\* result chunks of a search record
Chunk(j) == [blob |-> [repository |-> [name |-> "repo"], path |-> "file " \o ToString(j)],
             startLine |-> 10 * j, endLine |-> 10 * j + 1,
             chunkContent |-> << "line a", "line b" >>]

ResultLists == { << >>, << Chunk(1) >>, << Chunk(1), Chunk(2) >> }

ResponseTimes == { 0, 100, 250 }

\* api_details of a search record (04-context.py:63-99)
SearchApiDetails(h) ==
    { Merge([url |-> "https://sg.test/.api/cody/context",
             request_payload |-> "payload", status_code |-> "200"], h) }
    \cup { Merge([url |-> "https://sg.test/.api/cody/context",
                  request_payload |-> "payload", status_code |-> "200",
                  response_time |-> t], h) : t \in ResponseTimes }

\* the search records a session may hold at position i (04-context.py:222-232)
SearchesAt(i, h) ==
    LET params == [code_results |-> "5", text_results |-> "2",
                   file_patterns |-> "None", version |-> "1.0"]
        timed  == Merge([url |-> "https://sg.test/.api/cody/context",
                         request_payload |-> "payload", status_code |-> "200",
                         response_time |-> 100], h)
    IN { [query |-> "query " \o ToString(i), results |-> r, api_details |-> timed,
          search_params |-> params] : r \in ResultLists }
       \cup { [query |-> "query " \o ToString(i), results |-> << Chunk(1) >>,
                api_details |-> d, search_params |-> params] :
                  d \in SearchApiDetails(h) }

SearchLists(h) == ListsFrom([i \in 1..MaxSearches |-> SearchesAt(i, h)])

MODE_EXAMPLES == <<"e","x","a","m","p","l","e","s">>

ContextMetadata ==
    [mode |-> MODE_EXAMPLES, duration |-> "0m 9s",
     default_repos |-> << [name |-> "github.com/sourcegraph/cody"] >>,
     endpoint |-> "https://sg.test/.api/cody/context"]

ContextConversation ==
    << [role |-> "system", content |-> "context"],
       [role |-> "user", content |-> "question"],
       [role |-> "assistant", content |-> "answer"] >>

ContextMetadatas ==
    { Merge(ContextMetadata, m) :
        m \in { EmptyDict,
                [include_raw_data |-> TRUE],
                [includes_conversation |-> TRUE,
                 conversation_history |-> ContextConversation],
                [includes_conversation |-> TRUE, include_raw_data |-> TRUE,
                 conversation_history |-> ContextConversation] } }

MODE_BATCH == <<"b","a","t","c","h","/","x">>

MODE_REVIEW == <<"r","e","v","i","e","w">>

Modes == { REFACTORING_EXAMPLES, INTERACTIVE_CONTEXT, CUSTOM_CONTEXT, MODE_BATCH,
           MODE_REVIEW }

\* the tasks or interactions a session of the mode may hold at position i
\* (05-manual-context.py): answered, answered with an empty text, and failed
ItemsAt(mode, i) ==
    IF mode = INTERACTIVE_CONTEXT
    THEN { [timestamp |-> "12:00:0" \o ToString(i), context_description |-> "default",
            context_size |-> 120, success |-> TRUE,
            user_question |-> "question " \o ToString(i),
            assistant_response |-> r] : r \in { "answer " \o ToString(i), "" } }
         \cup
         { [timestamp |-> "12:00:0" \o ToString(i), context_description |-> "default",
            context_size |-> 120, success |-> FALSE,
            user_question |-> "question " \o ToString(i)] }
    ELSE IF mode = CUSTOM_CONTEXT
    THEN { [task_name |-> "Custom Analysis", completed |-> TRUE, code_content |-> "x = 1",
            prompt |-> "prompt " \o ToString(i), response |-> r] :
              r \in { "answer " \o ToString(i), "" } }
         \cup
         { [task_name |-> "Custom Analysis", completed |-> FALSE, code_content |-> "x = 1",
            prompt |-> "prompt " \o ToString(i)] }
    ELSE { [task_number |-> i, task_name |-> "task " \o ToString(i), completed |-> TRUE,
            prompt |-> "prompt " \o ToString(i), response |-> r] :
              r \in { "answer " \o ToString(i), "" } }
         \cup
         { [task_number |-> i, task_name |-> "task " \o ToString(i), completed |-> FALSE,
            prompt |-> "prompt " \o ToString(i)] }

ItemLists(mode) == ListsFrom([i \in 1..MaxTasks |-> ItemsAt(mode, i)])

ManualMetadata(mode) ==
    [model_id |-> MODEL_ID, mode |-> mode, duration |-> "2m 0s", api_calls_count |-> "2",
     total_tasks |-> "2", completed_tasks |-> "1", total_interactions |-> "2",
     total_context_switches |-> "1", custom_type |-> "code",
     context_metadata |-> [context_file |-> "sample.py", context_size |-> "120"],
     context_switches |-> << [action |-> "load", timestamp |-> "12:00:00",
                              file_path |-> "sample.py", context_size |-> "120",
                              description |-> "default"] >>]

OkIo == [kind |-> "ok", cut |-> 0]

NoResult == [returned |-> "not called", responses_dir |-> "", path |-> << >>,
             doc |-> << >>]

NoFiles == [f \in {} |-> << >>]

----------------------------------------------------------------------------
(* The renderers as functions of their arguments: Init draws the arguments  *)
(* and one action per renderer applies it.                                 *)

InitIdle ==
    /\ model_data = EmptyDict
    /\ api_calls_count = 0
    /\ temperature = "0.7"
    /\ max_tokens = "4000"
    /\ pc = "call"
    /\ clock = 0
    /\ dirExists = FALSE
    /\ files = NoFiles
    /\ result = NoResult
    /\ cleared_lists = << >>
    /\ session_count = 0
    /\ fault = OkIo

\* a first user message, alone and with its reply
FirstExchanges ==
    { << [role |-> "user", content |-> "message 1"] >>,
      << [role |-> "user", content |-> "message 1"],
         [role |-> "assistant", content |-> "message 2"] >> }

\* every conversation with the scripts' headers, and a first exchange with
\* every headers option
InitChatArgs ==
    /\ renderer = "chat"
    /\ \/ /\ conversation_history \in Conversations
          /\ api_calls_history \in ApiCallLists(DefaultHeaders)
       \/ /\ conversation_history \in FirstExchanges
          /\ \E h \in HeaderOptions :
               api_calls_history \in { c \in ApiCallLists(h) : Len(c) = 1 }
    /\ session_metadata = ChatMetadata
    /\ session_steps = << >>
    /\ search_history = << >>
    /\ tasks_or_interactions = << >>

\* dict d without the keys outside K
Restrict(d, K) == [k \in K |-> d[k]]

\* every dict that holds a subset of the keys of d
Sparse(d) == { Restrict(d, K) : K \in SUBSET DOMAIN d }

\* a chat session with keys absent from the api-call record, from the
\* messages or from the metadata
InitSparseChatArgs ==
    /\ renderer = "chat"
    /\ LET conv == << [role |-> "user", content |-> "message 1"],
                      [role |-> "assistant", content |-> "message 2"] >>
           api  == Merge(Merge(ApiCallBase(1), DefaultHeaders), UsageOf(1))
       IN \/ /\ conversation_history = conv
             /\ api_calls_history \in ListsOfLen(<< Sparse(api) >>, 1)
             /\ session_metadata = ChatMetadata
          \/ /\ conversation_history \in ListsOfLen(<< Sparse(conv[1]), Sparse(conv[2]) >>, 2)
             /\ api_calls_history = << api >>
             /\ session_metadata = ChatMetadata
          \/ /\ conversation_history = conv
             /\ api_calls_history = << api >>
             /\ session_metadata \in Sparse(ChatMetadata)
    /\ session_steps = << >>
    /\ search_history = << >>
    /\ tasks_or_interactions = << >>

\* a tool-calling session of the recorded shape with keys absent from one of
\* its steps, from a tool call, from the api details or from the metadata
InitSparseToolArgs ==
    /\ renderer = "tool"
    /\ LET api   == ToolApiDetails(1, DefaultHeaders)
           first == [step_number |-> "1", step_type |-> "initial_request",
                     user_query |-> "What time is it?", api_details |-> api]
           call  == Merge(ToolCallRecord,
                          [function_result |->
                             [type |-> "str", raises |-> "none", text |-> "{\"temp\": 21}"]])
           exec  == [step_number |-> "2", step_type |-> "tool_execution",
                     tool_calls |-> << call >>]
           final == [step_number |-> "3", step_type |-> "final_response",
                     ai_response |-> "It is noon.", api_details |-> api]
           full  == Merge(ToolMetadata, [complete_conversation |-> "[messages]"])
       IN \/ /\ \E a \in Sparse(first), b \in { exec } \cup
                         { Merge(exec, [tool_calls |-> << c >>]) : c \in Sparse(call) } :
                   session_steps = << a, b, final >>
             /\ session_metadata = full
          \/ /\ \E d \in Sparse(api) :
                   session_steps \in
                     { << Merge(first, [api_details |-> d]), exec, final >>,
                       << first, exec, Merge(final, [api_details |-> d]) >> }
             /\ session_metadata = full
          \/ /\ \E c \in Sparse(final) : session_steps = << first, exec, c >>
             /\ session_metadata \in { full, EmptyDict }
          \/ /\ session_steps = << first, exec, final >>
             /\ session_metadata \in Sparse(full)
    /\ conversation_history = << >>
    /\ api_calls_history = << >>
    /\ search_history = << >>
    /\ tasks_or_interactions = << >>

\* conversations the conversational mode does not build itself: an empty one,
\* one with a message of another role between the others, one whose message
\* has no role, and one cleared down to its system messages
OtherConversations ==
    { << >>,
      << [role |-> "system", content |-> "context"],
         [role |-> "tool", content |-> "tool result"],
         [role |-> "user", content |-> "question"] >>,
      << [content |-> "no role"], [role |-> "assistant", content |-> "answer"] >>,
      << [role |-> "system", content |-> "context"],
         [role |-> "system", content |-> "context 2"] >> }

\* a context-search session with keys absent from the search record, its
\* api details, its search parameters, a result chunk or the metadata
InitSparseContextArgs ==
    /\ renderer = "context"
    /\ LET api    == Merge([url |-> "https://sg.test/.api/cody/context",
                            request_payload |-> "payload", status_code |-> "200",
                            response_time |-> 100], DefaultHeaders)
           params == [code_results |-> "5", text_results |-> "2",
                      file_patterns |-> "None", version |-> "1.0"]
           search == [query |-> "query 1", results |-> << Chunk(1) >>,
                      api_details |-> api, search_params |-> params]
           full   == Merge(ContextMetadata,
                           [includes_conversation |-> TRUE, include_raw_data |-> TRUE,
                            conversation_history |-> ContextConversation])
       IN \/ /\ search_history \in
                   ListsOfLen(<< Sparse(search)
                       \cup { Merge(search, [api_details |-> d]) : d \in Sparse(api) }
                       \cup { Merge(search, [search_params |-> d]) : d \in Sparse(params) }
                       \cup { Merge(search, [results |-> << c >>]) : c \in Sparse(Chunk(1)) }
                       \cup { Merge(search, [results |-> << Merge(Chunk(1), [blob |-> b]) >>]) :
                                b \in Sparse(Chunk(1).blob) } >>, 1)
             /\ session_metadata \in { full, EmptyDict }
          \/ /\ search_history = << search >>
             /\ session_metadata \in Sparse(full)
          \/ /\ search_history \in { << >>, << search >>, << search, search >> }
             /\ \E flag \in BOOLEAN, conv \in OtherConversations :
                  session_metadata =
                      Merge(ContextMetadata, [includes_conversation |-> flag,
                                              conversation_history |-> conv])
    /\ conversation_history = << >>
    /\ api_calls_history = << >>
    /\ session_steps = << >>
    /\ tasks_or_interactions = << >>

\* response.text of a failed request: n characters, the k-th being the last
\* digit of k
ResponseText(n) == [k \in 1..n |-> ToString(k % 10)]

\* the lengths of the response bodies: empty, short, and around the limit
BodyLengths == { 0, 3, ERROR_BODY_LIMIT - 1, ERROR_BODY_LIMIT, ERROR_BODY_LIMIT + 1,
                 ERROR_BODY_LIMIT + 50 }

\* the error descriptor of an HTTP error (05-manual-context.py:194-199)
HttpError(n) == [type |-> "HTTPError", message |-> "500 Server Error",
                 status_code |-> "500", response_body |-> ResponseText(n)]

\* an api-call record of 05-manual-context.py that carries an error
ManualApiCall ==
    Merge(Merge(Merge(ApiCallBase(1), DefaultHeaders), UsageOf(1)),
          [context_size |-> "120", context_description |-> "default",
           error |-> HttpError(ERROR_BODY_LIMIT + 50)])

\* a manual-context session with keys absent from the task or interaction,
\* from the api-call record, from its error or from the metadata
InitSparseManualArgs ==
    /\ renderer = "manual"
    /\ \E mode \in Modes :
         \/ /\ tasks_or_interactions \in
                  ListsOfLen(<< UNION { Sparse(item) : item \in ItemsAt(mode, 1) } >>, 1)
            /\ api_calls_history \in
                  { << >> } \cup { << Merge(ManualApiCall, [error |-> HttpError(n)]) >> :
                                     n \in BodyLengths }
            /\ session_metadata = ManualMetadata(mode)
         \/ /\ tasks_or_interactions \in ListsOfLen(<< ItemsAt(mode, 1) >>, 1)
            /\ api_calls_history \in
                  ListsOfLen(<< Sparse(ManualApiCall)
                      \cup { Merge(ManualApiCall, [error |-> e]) :
                               e \in Sparse(ManualApiCall.error) } >>, 1)
            /\ session_metadata = ManualMetadata(mode)
         \/ /\ tasks_or_interactions \in ListsOfLen(<< ItemsAt(mode, 1) >>, 1)
            /\ api_calls_history = << ManualApiCall >>
            /\ session_metadata \in Sparse(ManualMetadata(mode))
                  \cup { Merge(ManualMetadata(mode), [context_metadata |-> EmptyDict]),
                         Merge(ManualMetadata(mode), [context_switches |-> << >>]),
                         Merge(ManualMetadata(mode), [context_switches |-> << EmptyDict >>]) }
    /\ conversation_history = << >>
    /\ session_steps = << >>
    /\ search_history = << >>

\* step lists with the scripts' headers, and one initial_request step with
\* every headers option
InitToolArgs ==
    /\ renderer = "tool"
    /\ \/ session_steps \in StepLists(DefaultHeaders)
       \/ \E h \in HeaderOptions : session_steps \in ListsOfLen(<< StepsAt(1, h) >>, 1)
    /\ session_metadata \in ToolMetadatas
    /\ conversation_history = << >>
    /\ api_calls_history = << >>
    /\ search_history = << >>
    /\ tasks_or_interactions = << >>

\* search lists with the scripts' headers, and one search with every headers
\* option
InitContextArgs ==
    /\ renderer = "context"
    /\ \/ search_history \in SearchLists(DefaultHeaders)
       \/ \E h \in HeaderOptions : search_history \in ListsOfLen(<< SearchesAt(1, h) >>, 1)
    /\ session_metadata \in ContextMetadatas
    /\ conversation_history = << >>
    /\ api_calls_history = << >>
    /\ session_steps = << >>
    /\ tasks_or_interactions = << >>

\* every task list with the scripts' headers, and one task with every
\* headers option
InitManualArgs ==
    /\ renderer = "manual"
    /\ \E mode \in Modes :
         /\ session_metadata = ManualMetadata(mode)
         /\ \/ /\ tasks_or_interactions \in ItemLists(mode)
               /\ api_calls_history \in ApiCallLists(DefaultHeaders)
            \/ /\ tasks_or_interactions \in ListsOfLen(<< ItemsAt(mode, 1) >>, 1)
               /\ \E h \in HeaderOptions :
                    api_calls_history \in { c \in ApiCallLists(h) : Len(c) = 1 }
    /\ conversation_history = << >>
    /\ session_steps = << >>
    /\ search_history = << >>

\* the effect of a renderer call r on the filesystem and on the caller
Returned(r) ==
    /\ result' = [returned |-> r.returned, responses_dir |-> r.responses_dir,
                  path |-> r.path, doc |-> r.doc]
    /\ files' = r.files
    /\ dirExists' = r.dirExists
    /\ pc' = "done"

RenderChat ==
    /\ renderer = "chat"
    /\ pc = "call"
    /\ Returned(SaveChatSessionToMarkdown(conversation_history, api_calls_history,
                    session_metadata, "02-chat", clock, dirExists, files, OkIo))
    /\ UNCHANGED << model_data, renderer, conversation_history, api_calls_history, api_calls_count,
                    temperature, max_tokens, session_steps, search_history,
                    tasks_or_interactions, session_metadata, clock,
                    cleared_lists, session_count, fault >>

RenderTool ==
    /\ renderer = "tool"
    /\ pc = "call"
    /\ Returned(SaveToolCallingSessionToMarkdown(session_steps, session_metadata,
                    "03-tools", clock, dirExists, files, OkIo))
    /\ UNCHANGED << model_data, renderer, conversation_history, api_calls_history, api_calls_count,
                    temperature, max_tokens, session_steps, search_history,
                    tasks_or_interactions, session_metadata, clock,
                    cleared_lists, session_count, fault >>

RenderContext ==
    /\ renderer = "context"
    /\ pc = "call"
    /\ Returned(SaveContextSearchSessionToMarkdown(search_history, session_metadata,
                    "04-context", clock, dirExists, files, OkIo))
    /\ UNCHANGED << model_data, renderer, conversation_history, api_calls_history, api_calls_count,
                    temperature, max_tokens, session_steps, search_history,
                    tasks_or_interactions, session_metadata, clock,
                    cleared_lists, session_count, fault >>

RenderManual ==
    /\ renderer = "manual"
    /\ pc = "call"
    /\ Returned(SaveManualContextSessionToMarkdown(tasks_or_interactions,
                    api_calls_history, session_metadata, "05-manual-context",
                    clock, dirExists, files, OkIo))
    /\ UNCHANGED << model_data, renderer, conversation_history, api_calls_history, api_calls_count,
                    temperature, max_tokens, session_steps, search_history,
                    tasks_or_interactions, session_metadata, clock,
                    cleared_lists, session_count, fault >>

InitRender ==
    /\ InitIdle
    /\ \/ InitChatArgs
       \/ InitToolArgs
       \/ InitContextArgs
       \/ InitManualArgs
       \/ InitSparseChatArgs
       \/ InitSparseToolArgs
       \/ InitSparseContextArgs
       \/ InitSparseManualArgs

NextRender ==
    \/ RenderChat
    \/ RenderTool
    \/ RenderContext
    \/ RenderManual

SpecRender == InitRender /\ [][NextRender]_vars

----------------------------------------------------------------------------
(* 02-chat.py: interactive_chat, one action per command read from input(), *)
(* with send_chat_completion as part of the action that sends a message.   *)

MaxTurns == 3

MaxClears == 2

\* the headers send_chat_completion builds (02-chat.py:48-53)
H_CONTENT_TYPE == <<"C","o","n","t","e","n","t","-","T","y","p","e">>

ChatHeaders ==
    << << H_ACCEPT, "application/json" >>,
       << H_CONTENT_TYPE, "application/json" >>,
       << H_AUTHORIZATION, HeaderValue(H_AUTHORIZATION) >>,
       << H_X_REQUESTED_WITH, HeaderValue(H_X_REQUESTED_WITH) >> >>

\* what one call of send_chat_completion can meet
Outcomes == { "content", "empty_content", "no_choices", "unexpected",
              "no_config", "http_error", "request_error", "json_error" }

\* the outcomes for which send_chat_completion returns a tuple: a reply with
\* choices, no choices, and the generic except clause; the other outcomes
\* return a bare None
ReturnsTuple(outcome) ==
    outcome \in { "content", "empty_content", "no_choices", "unexpected" }

\* the assistant_message of the outcome; "" stands for None as well, both falsy
AssistantMessage(outcome, n) ==
    IF outcome = "content" THEN "reply " \o ToString(n) ELSE ""

\* the list object conversation_history is bound to: one more than the
\* number of lists `clear` has unbound
CurrentList == Len(cleared_lists) + 1

\* the content of list object id
ListContent(id, conv, cleared) ==
    IF id <= Len(cleared) THEN cleared[id] ELSE conv

\* api_details as send_chat_completion fills it. payload.copy() is shallow:
\* request_payload holds the list object of the conversation, not its
\* content. posted is the last message of the body requests.post sent.
ApiDetails(outcome, n, user_input, list_id, temp, tokens) ==
    [url             |-> "https://sg.test/.api/llm/chat/completions",
     headers         |-> ChatHeaders,
     request_payload |-> [model |-> MODEL_ID, messages |-> list_id,
                          max_tokens |-> tokens, temperature |-> temp],
     status_code     |-> "200",
     response_time   |-> ToString(100 * n),
     usage           |-> IF outcome = "no_choices" THEN EmptyDict ELSE UsageOf(n).usage,
     posted          |-> user_input]

\* json.dumps(request_payload) at the time the report is written
DumpPayload(payload, conv, cleared) ==
    "messages " \o ToString(Len(ListContent(payload.messages, conv, cleared)))
       \o " max_tokens " \o payload.max_tokens
       \o " temperature " \o payload.temperature

\* the api-call records as the renderer reads them
DumpedApiCalls(api_calls, conv, cleared) ==
    [k \in 1..Len(api_calls) |->
        [api_calls[k] EXCEPT !.request_payload = DumpPayload(@, conv, cleared)]]

loopVars == << renderer, session_steps, search_history, tasks_or_interactions,
               model_data, clock, session_count, fault >>

\* lines 192-214: a message is sent
SendMessage(outcome) ==
    /\ pc = "input"
    /\ api_calls_count < MaxTurns
    /\ LET n          == api_calls_count + 1
           user_input == "message " \o ToString(n)
           sent       == Append(conversation_history,
                                [role |-> "user", content |-> user_input])
           reply      == AssistantMessage(outcome, n)
       IN /\ api_calls_count' = n
          /\ api_calls_history' =
               IF ReturnsTuple(outcome)
               THEN Append(api_calls_history,
                           ApiDetails(outcome, n, user_input, CurrentList,
                                      temperature, max_tokens))
               ELSE api_calls_history
          /\ conversation_history' =
               IF reply # ""
               THEN Append(sent, [role |-> "assistant", content |-> reply])
               ELSE sent
    /\ UNCHANGED << temperature, max_tokens, session_metadata, pc, dirExists, files,
                    result, cleared_lists >>
    /\ UNCHANGED loopVars

\* lines 162-165: conversation_history = []
Clear ==
    /\ pc = "input"
    /\ Len(cleared_lists) < MaxClears
    /\ cleared_lists' = Append(cleared_lists, conversation_history)
    /\ conversation_history' = << >>
    /\ UNCHANGED << api_calls_history, api_calls_count, temperature, max_tokens,
                    session_metadata, pc, dirExists, files, result >>
    /\ UNCHANGED loopVars

\* what the operator can type at a number prompt: the text, whether float()
\* or int() accepts it, and its value in tenths (temperature) or units
TemperatureInputs ==
    { [text |-> "0.2", parses |-> TRUE,  value |-> 2],
      [text |-> "1.5", parses |-> TRUE,  value |-> 15],
      [text |-> "abc", parses |-> FALSE, value |-> 0] }

TokenInputs ==
    { [text |-> "100",  parses |-> TRUE,  value |-> 100],
      [text |-> "5000", parses |-> TRUE,  value |-> 5000],
      [text |-> "0",    parses |-> TRUE,  value |-> 0],
      [text |-> "abc",  parses |-> FALSE, value |-> 0] }

\* lines 166-176
SetTemperature(new_temp) ==
    /\ pc = "input"
    /\ temperature' = IF new_temp.parses /\ 0 <= new_temp.value /\ new_temp.value <= 10
                      THEN new_temp.text ELSE temperature
    /\ UNCHANGED << conversation_history, api_calls_history, api_calls_count,
                    max_tokens, session_metadata, pc, dirExists, files, result,
                    cleared_lists >>
    /\ UNCHANGED loopVars

\* lines 177-187
SetMaxTokens(new_tokens) ==
    /\ pc = "input"
    /\ max_tokens' = IF new_tokens.parses /\ 1 <= new_tokens.value /\ new_tokens.value <= 4000
                     THEN new_tokens.text ELSE max_tokens
    /\ UNCHANGED << conversation_history, api_calls_history, api_calls_count,
                    temperature, session_metadata, pc, dirExists, files, result,
                    cleared_lists >>
    /\ UNCHANGED loopVars

\* lines 188-190: an empty line
EmptyInput ==
    /\ pc = "input"
    /\ UNCHANGED vars

\* lines 159-161 and 216-247: quit, exit, bye, Ctrl-C or end of input, and
\* the save that follows when the conversation is not empty
Quit ==
    /\ pc = "input"
    /\ IF conversation_history # << >>
       THEN LET meta == [model_id        |-> MODEL_ID,
                         temperature     |-> temperature,
                         max_tokens      |-> max_tokens,
                         duration        |-> "0m " \o ToString(clock) \o "s",
                         api_calls_count |-> ToString(api_calls_count)]
            IN /\ session_metadata' = meta
               /\ Returned(SaveChatSessionToMarkdown(conversation_history,
                      DumpedApiCalls(api_calls_history, conversation_history,
                                     cleared_lists),
                      meta, "02-chat", clock, dirExists, files, OkIo))
       ELSE /\ pc' = "done"
            /\ UNCHANGED << session_metadata, dirExists, files, result >>
    /\ UNCHANGED << conversation_history, api_calls_history, api_calls_count,
                    temperature, max_tokens, cleared_lists >>
    /\ UNCHANGED loopVars

\* lines 148-153
InitChat ==
    /\ renderer = "chat"
    /\ temperature = "0.7"
    /\ max_tokens = "4000"
    /\ conversation_history = << >>
    /\ api_calls_count = 0
    /\ api_calls_history = << >>
    /\ cleared_lists = << >>
    /\ session_metadata = EmptyDict
    /\ model_data = EmptyDict
    /\ session_steps = << >>
    /\ search_history = << >>
    /\ tasks_or_interactions = << >>
    /\ pc = "input"
    /\ clock = 0
    /\ dirExists = FALSE
    /\ files = NoFiles
    /\ result = NoResult
    /\ session_count = 0
    /\ fault = OkIo

NextChat ==
    \/ \E outcome \in Outcomes : SendMessage(outcome)
    \/ Clear
    \/ \E new_temp \in TemperatureInputs : SetTemperature(new_temp)
    \/ \E new_tokens \in TokenInputs : SetMaxTokens(new_tokens)
    \/ EmptyInput
    \/ Quit

SpecChat == InitChat /\ [][NextChat]_vars

----------------------------------------------------------------------------
(* The renderers against the filesystem: a script saves one session after  *)
(* another into responses/ while the clock advances and the operating     *)
(* system may refuse a call.                                               *)

MaxSessions == 3

MaxClock == 2

\* what the operating system can do to one call: nothing, fail os.makedirs,
\* fail open(), or fail a write after io.cut lines
Ios == { OkIo,
         [kind |-> "mkdir_error", cut |-> 0],
         [kind |-> "open_error", cut |-> 0],
         [kind |-> "write_error", cut |-> 2] }

\* metadata of a session with the scripts' model id, and with model_id None
WithModelIds(meta) == { meta, Merge(meta, [model_id |-> NONE]) }

\* the sessions a script may hand over: two of each kind, of different length
FsStepLists ==
    LET first == [step_number |-> "1", step_type |-> "initial_request",
                  user_query |-> "What time is it?",
                  api_details |-> ToolApiDetails(1, DefaultHeaders)]
        final == [step_number |-> "2", step_type |-> "final_response",
                  ai_response |-> "It is noon.",
                  api_details |-> ToolApiDetails(2, DefaultHeaders)]
    IN { << first >>, << first, final >> }

FsSearchLists ==
    { << >>,
      << [query |-> "query 1", results |-> << Chunk(1) >>,
          api_details |-> Merge([url |-> "https://sg.test/.api/cody/context",
                                 request_payload |-> "payload", status_code |-> "200",
                                 response_time |-> 100], DefaultHeaders),
          search_params |-> [code_results |-> "5", text_results |-> "2",
                             file_patterns |-> "None", version |-> "1.0"]] >> }

\* the caller holds the outcome of the call; the directory and the files are
\* as the call left them
Saved(r, io) ==
    /\ Returned(r)
    /\ fault' = io

\* os.makedirs is reached only when the directory is absent
Reachable(io) == io.kind = "mkdir_error" => ~ dirExists

\* save_chat_session_to_markdown called by a run of 02-chat.py
SaveChat(io) ==
    /\ renderer = "chat"
    /\ pc = "call"
    /\ Reachable(io)
    /\ \E conv \in FirstExchanges,
          meta \in WithModelIds(ChatMetadata) :
         /\ conversation_history' = conv
         /\ api_calls_history' =
              << Merge(Merge(ApiCallBase(1), DefaultHeaders), UsageOf(1)) >>
         /\ session_metadata' = meta
         /\ Saved(SaveChatSessionToMarkdown(conv, api_calls_history', meta,
                      "02-chat", clock, dirExists, files, io), io)
    /\ UNCHANGED << model_data, renderer, api_calls_count, temperature, max_tokens, session_steps,
                    search_history, tasks_or_interactions, clock, cleared_lists,
                    session_count >>

\* save_tool_calling_session_to_markdown called by handle_tool_calling_conversation
SaveTool(io) ==
    /\ renderer = "tool"
    /\ pc = "call"
    /\ Reachable(io)
    /\ \E steps \in FsStepLists,
          meta \in WithModelIds(ToolMetadata) :
         /\ session_steps' = steps
         /\ session_metadata' = meta
         /\ Saved(SaveToolCallingSessionToMarkdown(steps, meta, "03-tools", clock,
                      dirExists, files, io), io)
    /\ UNCHANGED << model_data, renderer, conversation_history, api_calls_history, api_calls_count,
                    temperature, max_tokens, search_history, tasks_or_interactions,
                    clock, cleared_lists, session_count >>

\* save_context_search_session_to_markdown called by a run of 04-context.py
SaveContext(io) ==
    /\ renderer = "context"
    /\ pc = "call"
    /\ Reachable(io)
    /\ \E history \in FsSearchLists :
         /\ search_history' = history
         /\ session_metadata' = ContextMetadata
         /\ Saved(SaveContextSearchSessionToMarkdown(history, ContextMetadata,
                      "04-context", clock, dirExists, files, io), io)
    /\ UNCHANGED << model_data, renderer, conversation_history, api_calls_history, api_calls_count,
                    temperature, max_tokens, session_steps, tasks_or_interactions,
                    clock, cleared_lists, session_count >>

\* save_manual_context_session_to_markdown called by a run of 05-manual-context.py
SaveManual(io) ==
    /\ renderer = "manual"
    /\ pc = "call"
    /\ Reachable(io)
    /\ \E mode \in { REFACTORING_EXAMPLES, MODE_BATCH } :
         \E items \in ListsOfLen(<< ItemsAt(mode, 1) >>, 1),
            meta \in WithModelIds(ManualMetadata(mode)) :
           /\ tasks_or_interactions' = items
           /\ api_calls_history' = << >>
           /\ session_metadata' = meta
           /\ Saved(SaveManualContextSessionToMarkdown(items, << >>, meta,
                        "05-manual-context", clock, dirExists, files, io), io)
    /\ UNCHANGED << model_data, renderer, conversation_history, api_calls_count, temperature,
                    max_tokens, session_steps, search_history, clock, cleared_lists,
                    session_count >>

\* the caller goes on to its next session (03-tools.py:538), or the script is
\* run again
NextSession ==
    /\ pc = "done"
    /\ session_count < MaxSessions - 1
    /\ session_count' = session_count + 1
    /\ pc' = "call"
    /\ UNCHANGED << model_data, renderer, conversation_history, api_calls_history, api_calls_count,
                    temperature, max_tokens, session_steps, search_history,
                    tasks_or_interactions, session_metadata, clock, dirExists, files,
                    result, cleared_lists, fault >>

\* a second passes
Tick ==
    /\ clock < MaxClock
    /\ clock' = clock + 1
    /\ UNCHANGED << model_data, renderer, conversation_history, api_calls_history, api_calls_count,
                    temperature, max_tokens, session_steps, search_history,
                    tasks_or_interactions, session_metadata, pc, dirExists, files,
                    result, cleared_lists, session_count, fault >>

InitFs ==
    /\ renderer \in { "chat", "tool", "context", "manual" }
    /\ dirExists \in BOOLEAN
    /\ conversation_history = << >>
    /\ api_calls_history = << >>
    /\ api_calls_count = 0
    /\ temperature = "0.7"
    /\ max_tokens = "4000"
    /\ session_steps = << >>
    /\ search_history = << >>
    /\ tasks_or_interactions = << >>
    /\ session_metadata = EmptyDict
    /\ model_data = EmptyDict
    /\ pc = "call"
    /\ clock = 0
    /\ files = NoFiles
    /\ result = NoResult
    /\ cleared_lists = << >>
    /\ session_count = 0
    /\ fault = OkIo

NextFs ==
    \/ \E io \in Ios : SaveChat(io)
    \/ \E io \in Ios : SaveTool(io)
    \/ \E io \in Ios : SaveContext(io)
    \/ \E io \in Ios : SaveManual(io)
    \/ NextSession
    \/ Tick

SpecFs == InitFs /\ [][NextFs]_vars

----------------------------------------------------------------------------
(* The filenames of the five writers: Init draws the model id and the mode *)
(* that qualify a name, and one action per writer applies it.              *)

\* model ids: the usual three-part id, ids with runs of three, four and five
\* colons, an id with separators only, and a plain one
ModelIds ==
    { MODEL_ID,
      <<"a",":",":",":","b">>,
      <<"a",":",":",":",":","b">>,
      <<":",":",":",":",":">>,
      <<"o","r","g","/","m","/","x">>,
      <<"/",":",":","/">>,
      <<"g","p","t">> }

MODE_SCOPED == <<"t","e","a","m",":",":","x">>

\* the scripts' modes, and modes that hold a separator
ModeValues == Modes \cup { MODE_EXAMPLES, MODE_SCOPED }

\* a "single model dictionary from the API" (docstring, lines 127-128)
ModelData(id) == [id |-> id, object |-> "model", owned_by |-> "owner", created |-> "0"]

InitNames ==
    /\ api_calls_count = 0
    /\ temperature = "0.7"
    /\ max_tokens = "4000"
    /\ pc = "call"
    /\ clock = 0
    /\ dirExists = FALSE
    /\ files = NoFiles
    /\ result = NoResult
    /\ cleared_lists = << >>
    /\ session_count = 0
    /\ fault = OkIo
    /\ api_calls_history = << >>
    /\ \/ /\ renderer = "model_instance"
          /\ model_data \in { ModelData(id) : id \in ModelIds }
                               \cup { [object |-> "model"] }
          /\ session_metadata = EmptyDict
          /\ conversation_history = << >>
          /\ session_steps = << >>
          /\ search_history = << >>
          /\ tasks_or_interactions = << >>
       \/ /\ renderer = "chat"
          /\ conversation_history \in FirstExchanges
          /\ session_metadata \in
                { Merge(ChatMetadata, [model_id |-> id]) : id \in ModelIds }
          /\ model_data = EmptyDict
          /\ session_steps = << >>
          /\ search_history = << >>
          /\ tasks_or_interactions = << >>
       \/ /\ renderer = "tool"
          /\ session_steps \in FsStepLists
          /\ session_metadata \in
                { Merge(ToolMetadata, [model_id |-> id]) : id \in ModelIds }
          /\ model_data = EmptyDict
          /\ conversation_history = << >>
          /\ search_history = << >>
          /\ tasks_or_interactions = << >>
       \/ /\ renderer = "context"
          /\ search_history \in FsSearchLists
          /\ session_metadata \in
                { Merge(ContextMetadata, [mode |-> mode]) : mode \in ModeValues }
          /\ model_data = EmptyDict
          /\ conversation_history = << >>
          /\ session_steps = << >>
          /\ tasks_or_interactions = << >>
       \/ /\ renderer = "manual"
          /\ \E mode \in ModeValues :
                /\ tasks_or_interactions \in
                      { << >> } \cup ListsOfLen(<< ItemsAt(mode, 1) >>, 1)
                /\ session_metadata \in
                      { Merge(ManualMetadata(mode), [model_id |-> id]) : id \in ModelIds }
          /\ model_data = EmptyDict
          /\ conversation_history = << >>
          /\ session_steps = << >>
          /\ search_history = << >>

\* save_model_instance_to_markdown(model_data) with its default script name
RenderModelInstance ==
    /\ renderer = "model_instance"
    /\ pc = "call"
    /\ Returned(SaveModelInstanceToMarkdown(model_data, "model-instance", clock,
                    dirExists, files, OkIo))
    /\ UNCHANGED << model_data, renderer, conversation_history, api_calls_history,
                    api_calls_count, temperature, max_tokens, session_steps,
                    search_history, tasks_or_interactions, session_metadata, clock,
                    cleared_lists, session_count, fault >>

NextNames ==
    \/ RenderModelInstance
    \/ RenderChat
    \/ RenderTool
    \/ RenderContext
    \/ RenderManual

SpecNames == InitNames /\ [][NextNames]_vars

----------------------------------------------------------------------------
(* 03-tools.py: handle_tool_calling_conversation with capture_session=True  *)
(* and the loop of interactive_mode around it.  A response is what          *)
(* send_chat_request returns: [tuple, data, api_details], where data is the *)
(* parsed body, EmptyDict standing for None.                                *)

MaxToolCalls == 2

\* AVAILABLE_FUNCTIONS, lines 69-73
AVAILABLE_FUNCTIONS == { "get_current_weather", "calculate_math", "get_current_time" }

\* what send_chat_request captured before the request failed (lines 215-218)
FailedApiDetails(n) ==
    Restrict(ToolApiDetails(n, DefaultHeaders), { "url", "headers", "request_payload" })

\* tool_call number i of a response; its arguments are a JSON text, or not
ToolCallOf(i, name, parses) ==
    [id |-> "call_" \o ToString(i),
     function |-> [name |-> name,
                   arguments |-> [parses |-> parses,
                                  text |-> IF parses THEN "{}" ELSE "{oops"]]]

\* the tool_calls lists a response may carry: none, an empty one, and one to
\* MaxToolCalls calls of known and unknown functions
ToolCallLists ==
    { << >> }
    \cup { [i \in 1..n |-> ToolCallOf(i, name, TRUE)] :
             n \in 1..MaxToolCalls, name \in { "get_current_time", "launch" } }
    \cup { << ToolCallOf(1, "calculate_math", FALSE) >> }

\* the assistant messages of a response: with or without content, with or
\* without the tool_calls key
Messages ==
    { [role |-> "assistant", content |-> c] : c \in { "It is noon.", "" } }
    \cup { [role |-> "assistant", content |-> c, tool_calls |-> t] :
             c \in { "Let me check.", "" }, t \in ToolCallLists }

\* the returns of the n-th send_chat_request of a conversation: bare None
\* (lines 180-182), (None, api_details) of a failed request (246-275), or
\* (data, api_details) with or without choices (242-243)
Responses(n) ==
    { [tuple |-> FALSE, data |-> EmptyDict, api_details |-> EmptyDict],
      [tuple |-> TRUE,  data |-> EmptyDict, api_details |-> FailedApiDetails(n)],
      [tuple |-> TRUE,  data |-> [choices |-> << >>],
       api_details |-> ToolApiDetails(n, DefaultHeaders)] }
    \cup { [tuple |-> TRUE, data |-> [choices |-> << [message |-> m] >>],
            api_details |-> ToolApiDetails(n, DefaultHeaders)] : m \in Messages }

\* `if not response or 'choices' not in response or len(response['choices']) == 0`
NoValidResponse(response) ==
    \/ ~ Truthy(response)
    \/ "choices" \notin DOMAIN response
    \/ Len(response.choices) = 0

\* the returns of the request that follows the tool calls: the same, with
\* messages that ask for no further tool
FinalResponses ==
    { r \in Responses(2) :
        NoValidResponse(r.data) \/ "tool_calls" \notin DOMAIN r.data.choices[1].message }

\* `if isinstance(result, tuple): response, api_details = result` and the
\* else branch with api_details = None (lines 300-306, 384-390)
Unpack(ret) ==
    IF ret.tuple THEN [response |-> ret.data, api_details |-> ret.api_details]
    ELSE [response |-> ret.data, api_details |-> EmptyDict]

\* a test of the key alone
WantsToolsWhenKeyPresent(message_response) == "tool_calls" \in DOMAIN message_response

\* `if 'tool_calls' in message_response and message_response['tool_calls']`
WantsTools(message_response) ==
    "tool_calls" \in DOMAIN message_response /\ message_response.tool_calls # << >>

\* execute_function_call: the JSON text of the result or of the error
ExecuteFunctionCall(function_name) ==
    [type |-> "str", raises |-> "none",
     text |-> IF function_name \in AVAILABLE_FUNCTIONS
              THEN "{\"current_time\": \"12:00\"}"
              ELSE "{\"error\": \"Unknown function: " \o function_name \o "\"}"]

\* json.loads(tool_call['function']['arguments']) raises for some call
ArgumentsRaise(tool_calls) ==
    \E i \in 1..Len(tool_calls) : ~ tool_calls[i].function.arguments.parses

\* tool_calls_details (lines 354-361)
ToolCallsDetails(tool_calls) ==
    [i \in 1..Len(tool_calls) |->
        [function_name   |-> tool_calls[i].function.name,
         function_args   |-> tool_calls[i].function.arguments.text,
         call_id         |-> Get(tool_calls[i], "id", "call_" \o ToString(i)),
         function_result |-> ExecuteFunctionCall(tool_calls[i].function.name)]]

\* the tool messages appended to the conversation (lines 363-370)
ToolMessages(tool_calls) ==
    [i \in 1..Len(tool_calls) |->
        [role |-> "assistant", name |-> tool_calls[i].function.name,
         content |-> ExecuteFunctionCall(tool_calls[i].function.name).text]]

\* lines 319-326: `if capture_session and api_details`
InitialRequestRecord(user_message, api_details) ==
    IF Truthy(api_details)
    THEN << [step_number |-> "1", step_type |-> "initial_request",
             user_query |-> user_message, api_details |-> api_details] >>
    ELSE << >>

\* lines 372-378
ToolExecutionRecord(tool_calls) ==
    << [step_number |-> "2", step_type |-> "tool_execution",
        tool_calls |-> ToolCallsDetails(tool_calls)] >>

\* lines 397-412: the step of the final response after the tool calls
FinalResponseRecord(final) ==
    IF NoValidResponse(final.response) THEN << >>
    ELSE LET final_content == Get(final.response.choices[1].message, "content", "")
         IN IF final_content # "" /\ Truthy(final.api_details)
            THEN << [step_number |-> "3", step_type |-> "final_response",
                     ai_response |-> final_content,
                     api_details |-> final.api_details] >>
            ELSE << >>

\* a direct response numbered as the one that follows the tool calls
DirectResponseRecordNumberedThree(message_response, api_details) ==
    IF Get(message_response, "content", "") # "" /\ Truthy(api_details)
    THEN << [step_number |-> "3", step_type |-> "final_response",
             ai_response |-> message_response.content,
             api_details |-> api_details] >>
    ELSE << >>

\* lines 421-432: the step of a direct response
DirectResponseRecord(message_response, api_details) ==
    IF Get(message_response, "content", "") # "" /\ Truthy(api_details)
    THEN << [step_number |-> "2", step_type |-> "final_response",
             ai_response |-> message_response.content,
             api_details |-> api_details] >>
    ELSE << >>

\* session_metadata, lines 459-469; the conversation is shown by its length
SessionMetadata(user_message, temp, tokens, total_api_calls, total_tool_calls, conversation) ==
    [model_id |-> MODEL_ID, temperature |-> temp, max_tokens |-> tokens,
     duration |-> "0m 0s",
     total_api_calls |-> ToString(total_api_calls),
     total_tool_calls |-> ToString(total_tool_calls),
     user_query |-> user_message,
     available_tools |-> [k \in 1..3 |->
         [name |-> << "get_current_weather", "calculate_math", "get_current_time" >>[k],
          description |-> "tool"]],
     complete_conversation |-> "[" \o ToString(Len(conversation)) \o " messages]"]

\* handle_tool_calling_conversation(user_message, model_id, True, temp, tokens)
\* for the returns first and final of its two requests.  returned is
\* "session", "None" or "raised".
HandleToolCallingConversation(user_message, temp, tokens, first, final) ==
    LET one == Unpack(first)
        two == Unpack(final)
        none == [returned |-> "None", session_steps |-> << >>,
                 session_metadata |-> EmptyDict, conversation |-> << >>,
                 total_api_calls |-> 1]
    IN IF NoValidResponse(one.response) THEN none
       ELSE
         LET message_response == one.response.choices[1].message
             opened == InitialRequestRecord(user_message, one.api_details)
             conv   == << [role |-> "user", content |-> user_message], message_response >>
         IN IF WantsTools(message_response)
            THEN IF ArgumentsRaise(message_response.tool_calls)
                 THEN [none EXCEPT !.returned = "raised"]
                 ELSE LET steps == opened \o ToolExecutionRecord(message_response.tool_calls)
                                          \o FinalResponseRecord(two)
                          conversation == conv \o ToolMessages(message_response.tool_calls)
                          n == Len(message_response.tool_calls)
                      IN [returned |-> "session", session_steps |-> steps,
                          session_metadata |->
                              SessionMetadata(user_message, temp, tokens, 2, n, conversation),
                          conversation |-> conversation, total_api_calls |-> 2]
            ELSE [returned |-> "session",
                  session_steps |-> opened \o DirectResponseRecord(message_response,
                                                                   one.api_details),
                  session_metadata |-> SessionMetadata(user_message, temp, tokens, 1, 0, conv),
                  conversation |-> conv, total_api_calls |-> 1]

\* the queries typed at the prompt
UserMessages03 == { "What time is it?", "Launch the rocket" }

\* interactive_mode, lines 527-546: a query is handled and the session it
\* returns is saved; an exception of the handler other than KeyboardInterrupt
\* and EOFError leaves the loop
ToolQuery(user_input, first, final) ==
    /\ pc = "input"
    /\ session_count < MaxSessions
    /\ \E session_data \in { HandleToolCallingConversation(user_input, temperature,
                                                           max_tokens, first, final) } :
          /\ session_steps' = session_data.session_steps
          /\ session_metadata' = session_data.session_metadata
          /\ conversation_history' = session_data.conversation
          /\ api_calls_count' = session_data.total_api_calls
          /\ IF session_data.returned = "session"
             THEN \E r \in { SaveToolCallingSessionToMarkdown(session_data.session_steps,
                                 session_data.session_metadata, "03-tools", clock,
                                 dirExists, files, OkIo) } :
                     /\ session_count' = session_count + 1
                     /\ result' = [returned |-> r.returned,
                                   responses_dir |-> r.responses_dir,
                                   path |-> r.path, doc |-> r.doc]
                     /\ files' = r.files
                     /\ dirExists' = r.dirExists
                     /\ pc' = "input"
             ELSE /\ pc' = IF session_data.returned = "raised" THEN "crashed" ELSE "input"
                  /\ result' = NoResult
                  /\ UNCHANGED << session_count, files, dirExists >>
    /\ UNCHANGED << renderer, api_calls_history, temperature, max_tokens, search_history,
                    tasks_or_interactions, model_data, clock, cleared_lists, fault >>

\* lines 495-497: quit, exit or bye
ToolQuit ==
    /\ pc = "input"
    /\ pc' = "done"
    /\ UNCHANGED << renderer, conversation_history, api_calls_history, api_calls_count,
                    temperature, max_tokens, session_steps, search_history,
                    tasks_or_interactions, session_metadata, model_data, clock,
                    dirExists, files, result, cleared_lists, session_count, fault >>

InitTools ==
    /\ renderer = "tool"
    /\ temperature = "0.7"
    /\ max_tokens = "4000"
    /\ conversation_history = << >>
    /\ api_calls_count = 0
    /\ api_calls_history = << >>
    /\ cleared_lists = << >>
    /\ session_metadata = EmptyDict
    /\ model_data = EmptyDict
    /\ session_steps = << >>
    /\ search_history = << >>
    /\ tasks_or_interactions = << >>
    /\ pc = "input"
    /\ clock = 0
    /\ dirExists = FALSE
    /\ files = NoFiles
    /\ result = NoResult
    /\ session_count = 0
    /\ fault = OkIo

\* the session is run with the settings interactive_mode starts with
NextTools ==
    \/ \E user_input \in UserMessages03, first \in Responses(1), final \in FinalResponses :
          ToolQuery(user_input, first, final)
    \/ ToolQuit

SpecTools == InitTools /\ [][NextTools]_vars

----------------------------------------------------------------------------
(* 05-manual-context.py: run_refactoring_examples and                       *)
(* interactive_context_mode, with send_chat_with_context(capture_details=   *)
(* True).  pc is "task" in the loop over the refactoring tasks, "no_context"*)
(* and "ask" at the two prompts of the interactive loop.  session_metadata  *)
(* holds the mode and the context switches recorded so far and is completed *)
(* at the save; fault tells whether the environment is configured.          *)

MaxSwitches == 2

\* refactoring_tasks, lines 261-282
RefactoringTasks ==
    << "Security Review", "Code Quality Improvement", "Performance Optimization",
       "Specific Function Refactor", "Database Connection Fix" >>

\* SOURCEGRAPH_URL or SOURCEGRAPH_ACCESS_TOKEN is not set (lines 89-91)
NotConfigured == [kind |-> "not_configured", cut |-> 0]

\* what a request can come to: an answer, a body without choices, an HTTP
\* error status, no connection
RequestOutcomes == { "content", "no_choices", "http_error", "request_exception" }

\* api_details as filled before the request (lines 132-139)
RequestDetails(user_message, context_description, context_size, task_name) ==
    Merge([url |-> "https://sg.test/.api/llm/chat/completions",
           request_payload |-> "payload: " \o user_message,
           context_description |-> context_description,
           context_size |-> context_size,
           task_name |-> task_name], DefaultHeaders)

\* api_details as completed after a parsed response (lines 150-156)
ResponseDetails(n) ==
    Merge([status_code |-> "200", response_time |-> ToString(100 * n)], UsageOf(n))

\* a function that returns a bare None for a failed request
SendChatWithContextBareNone(io, outcome, n, user_message, context_description, context_size, task_name) ==
    LET request == RequestDetails(user_message, context_description, context_size, task_name)
    IN IF io = NotConfigured \/ outcome \in { "http_error", "request_exception" }
       THEN [tuple |-> FALSE, answered |-> FALSE, assistant_message |-> "",
             api_details |-> EmptyDict]
       ELSE [tuple |-> TRUE, answered |-> outcome = "content",
             assistant_message |-> IF outcome = "content" THEN "answer " \o ToString(n)
                                   ELSE "",
             api_details |-> Merge(request, ResponseDetails(n))]

\* send_chat_with_context(..., capture_details=True) for the n-th request:
\* [tuple, answered, assistant_message, api_details]; answered is
\* `assistant_message is not None`
SendChatWithContext(io, outcome, n, user_message, context_description, context_size, task_name) ==
    LET request == RequestDetails(user_message, context_description, context_size, task_name)
    IN IF io = NotConfigured
       THEN [tuple |-> FALSE, answered |-> FALSE, assistant_message |-> "",
             api_details |-> EmptyDict]
       ELSE IF outcome = "content"
       THEN [tuple |-> TRUE, answered |-> TRUE,
             assistant_message |-> "answer " \o ToString(n),
             api_details |-> Merge(request, ResponseDetails(n))]
       ELSE IF outcome = "no_choices"
       THEN [tuple |-> TRUE, answered |-> FALSE, assistant_message |-> "",
             api_details |-> Merge(request, ResponseDetails(n))]
       ELSE IF outcome = "http_error"
       THEN [tuple |-> TRUE, answered |-> FALSE, assistant_message |-> "",
             api_details |-> Merge(request, [error |-> HttpError(3)])]
       ELSE [tuple |-> TRUE, answered |-> FALSE, assistant_message |-> "",
             api_details |-> Merge(request,
                                   [error |-> [type |-> "RequestException",
                                               message |-> "connection refused"]])]

\* `if isinstance(result, tuple): ...; api_calls_history.append(api_details)`
Captured(api_calls, ret) ==
    IF ret.tuple THEN Append(api_calls, ret.api_details) ELSE api_calls

\* the response key of an item: the answer, or absent for None
WithResponse(item, key, ret) ==
    IF ret.answered THEN Merge(item, [r \in { key } |-> ret.assistant_message]) ELSE item

\* the prompt of the i-th refactoring task
PromptOf(i) == "Prompt of " \o RefactoringTasks[i]

\* run_refactoring_examples, lines 297-330: the i-th task is sent and tracked
RunRefactoringTask(outcome) ==
    /\ pc = "task"
    /\ Len(tasks_or_interactions) < Len(RefactoringTasks)
    /\ LET i == Len(tasks_or_interactions) + 1
       IN \E ret \in { SendChatWithContext(fault, outcome, i, PromptOf(i),
                           "code examples for " \o RefactoringTasks[i], "120",
                           RefactoringTasks[i]) } :
            /\ api_calls_history' = Captured(api_calls_history, ret)
            /\ tasks_or_interactions' =
                 Append(tasks_or_interactions,
                        WithResponse([task_number |-> i, task_name |-> RefactoringTasks[i],
                                      prompt |-> PromptOf(i), completed |-> ret.answered],
                                     "response", ret))
            /\ api_calls_count' = i
    /\ UNCHANGED << renderer, conversation_history, temperature, max_tokens, session_steps,
                    search_history, session_metadata, model_data, pc, clock, dirExists,
                    files, result, cleared_lists, session_count, fault >>

\* the number of items with a true flag
CountTrue(items, flag) == Len(SelectSeq(items, LAMBDA t : t[flag]))

\* run_refactoring_examples, lines 332-356: the session is saved
SaveRefactoringSession ==
    /\ pc = "task"
    /\ Len(tasks_or_interactions) = Len(RefactoringTasks)
    /\ LET meta == [model_id |-> MODEL_ID, mode |-> REFACTORING_EXAMPLES,
                    duration |-> "0m 0s",
                    total_tasks |-> ToString(Len(RefactoringTasks)),
                    completed_tasks |-> ToString(CountTrue(tasks_or_interactions, "completed")),
                    api_calls_count |-> ToString(Len(api_calls_history)),
                    context_metadata |-> [context_file |-> "examples/sample-code.md",
                                          context_size |-> "120",
                                          context_description |-> "code examples"]]
       IN /\ session_metadata' = meta
          /\ Returned(SaveManualContextSessionToMarkdown(tasks_or_interactions,
                 api_calls_history, meta, "05-manual-context", clock, dirExists, files, OkIo))
    /\ UNCHANGED << renderer, conversation_history, api_calls_history, api_calls_count,
                    temperature, max_tokens, session_steps, search_history,
                    tasks_or_interactions, model_data, clock, cleared_lists,
                    session_count, fault >>

\* the context switches recorded so far
ContextSwitches == Get(session_metadata, "context_switches", << >>)

\* the description of the context the last switch loaded
ContextDescription ==
    IF ContextSwitches = << >> THEN "user-provided context"
    ELSE ContextSwitches[Len(ContextSwitches)].description

\* interactive_context_mode, lines 389-436: load, paste or default at the
\* prompt shown without a context
LoadContext(action) ==
    /\ pc = "no_context"
    /\ Len(ContextSwitches) < MaxSwitches
    /\ LET switch == Merge([timestamp |-> "12:00:0" \o ToString(clock), action |-> action,
                            context_size |-> "120",
                            description |-> IF action = "load_file" THEN "content from a.py"
                                            ELSE IF action = "paste_content"
                                            THEN "pasted content"
                                            ELSE "sample code examples"],
                           IF action = "paste_content" THEN EmptyDict
                           ELSE [file_path |-> IF action = "load_file" THEN "a.py"
                                               ELSE "examples/sample-code.md"])
       IN session_metadata' =
            Merge(session_metadata, [context_switches |-> Append(ContextSwitches, switch)])
    /\ pc' = "ask"
    /\ UNCHANGED << renderer, conversation_history, api_calls_history, api_calls_count,
                    temperature, max_tokens, session_steps, search_history,
                    tasks_or_interactions, model_data, clock, dirExists, files, result,
                    cleared_lists, session_count, fault >>

\* lines 445-447: 'load' at the question prompt drops the context
DropContext ==
    /\ pc = "ask"
    /\ pc' = "no_context"
    /\ UNCHANGED << renderer, conversation_history, api_calls_history, api_calls_count,
                    temperature, max_tokens, session_steps, search_history,
                    tasks_or_interactions, session_metadata, model_data, clock,
                    dirExists, files, result, cleared_lists, session_count, fault >>

\* lines 465-490: a question is sent and the interaction tracked
AskQuestion(outcome) ==
    /\ pc = "ask"
    /\ Len(tasks_or_interactions) < MaxTasks
    /\ LET n == Len(tasks_or_interactions) + 1
           user_input == "question " \o ToString(n)
       IN \E ret \in { SendChatWithContext(fault, outcome, n, user_input, ContextDescription,
                           "120", "Interactive: " \o user_input) } :
            /\ api_calls_history' = Captured(api_calls_history, ret)
            /\ tasks_or_interactions' =
                 Append(tasks_or_interactions,
                        WithResponse([timestamp |-> "12:00:0" \o ToString(clock),
                                      user_question |-> user_input,
                                      context_description |-> ContextDescription,
                                      context_size |-> 120,
                                      success |-> ret.answered],
                                     "assistant_response", ret))
            /\ api_calls_count' = n
    /\ UNCHANGED << renderer, conversation_history, temperature, max_tokens, session_steps,
                    search_history, session_metadata, model_data, pc, clock, dirExists,
                    files, result, cleared_lists, session_count, fault >>

\* lines 386-388, 442-444 and 500-525: quit at either prompt, and the save
\* that follows when there is an interaction or a context switch
QuitInteractive ==
    /\ pc \in { "no_context", "ask" }
    /\ IF tasks_or_interactions # << >> \/ ContextSwitches # << >>
       THEN LET meta == [model_id |-> MODEL_ID, mode |-> INTERACTIVE_CONTEXT,
                         duration |-> "0m 0s",
                         total_interactions |-> ToString(Len(tasks_or_interactions)),
                         total_context_switches |-> ToString(Len(ContextSwitches)),
                         api_calls_count |-> ToString(Len(api_calls_history)),
                         context_switches |-> ContextSwitches]
            IN /\ session_metadata' = meta
               /\ Returned(SaveManualContextSessionToMarkdown(tasks_or_interactions,
                      api_calls_history, meta, "05-manual-context", clock, dirExists,
                      files, OkIo))
       ELSE /\ pc' = "done"
            /\ UNCHANGED << session_metadata, dirExists, files, result >>
    /\ UNCHANGED << renderer, conversation_history, api_calls_history, api_calls_count,
                    temperature, max_tokens, session_steps, search_history,
                    tasks_or_interactions, model_data, clock, cleared_lists,
                    session_count, fault >>

\* main offers the two modes; the environment is configured or not
InitManual ==
    /\ renderer = "manual"
    /\ fault \in { OkIo, NotConfigured }
    /\ \/ pc = "task" /\ session_metadata = [mode |-> REFACTORING_EXAMPLES]
       \/ pc = "no_context" /\ session_metadata = [mode |-> INTERACTIVE_CONTEXT]
    /\ temperature = "0.7"
    /\ max_tokens = "4000"
    /\ conversation_history = << >>
    /\ api_calls_count = 0
    /\ api_calls_history = << >>
    /\ cleared_lists = << >>
    /\ model_data = EmptyDict
    /\ session_steps = << >>
    /\ search_history = << >>
    /\ tasks_or_interactions = << >>
    /\ clock = 0
    /\ dirExists = FALSE
    /\ files = NoFiles
    /\ result = NoResult
    /\ session_count = 0

NextManual ==
    \/ \E outcome \in RequestOutcomes : RunRefactoringTask(outcome)
    \/ SaveRefactoringSession
    \/ \E action \in { "load_file", "paste_content", "load_default" } : LoadContext(action)
    \/ DropContext
    \/ \E outcome \in RequestOutcomes : AskQuestion(outcome)
    \/ QuitInteractive

SpecManual == InitManual /\ [][NextManual]_vars

----------------------------------------------------------------------------
(* Two processes that save a report in the same working directory, step by  *)
(* step at the level of the system calls: os.path.exists, os.makedirs,      *)
(* open, write, return.  Here pc and result are functions of the process:   *)
(* pc[p] is the call p is about to make, result[p] what p has seen and done.*)

Procs == { 1, 2 }

\* the scripts the two processes run
Scripts == { "02-chat", "03-tools" }

\* the first lines of the report of a script
ReportLines(script_name) ==
    << GetLine("title", [model_id |-> MODEL_ID], "model_id", "Unknown Model"),
       L("script", 0, NoLine, script_name) >>

\* the file of process p: f"{timestamp}_{script_name}_{model_safe}.md"
FileOf(p) == Filename(result[p].timestamp, result[p].script_name, << Sanitize(MODEL_ID) >>)

\* file.write at the offset of the writer: line k of the file is replaced or
\* appended; a file another process has truncated meanwhile gets a hole of
\* zero bytes up to the offset
WriteAt(content, k, line) ==
    [j \in 1..(IF Len(content) < k THEN k ELSE Len(content)) |->
        IF j = k THEN line
        ELSE IF j <= Len(content) THEN content[j]
        ELSE L("hole", 0, NoLine, "")]

\* `if not os.path.exists(responses_dir):`, line 201
Exists(p) ==
    /\ pc[p] = "exists"
    /\ result' = [result EXCEPT ![p].saw = dirExists]
    /\ pc' = [pc EXCEPT ![p] = IF dirExists THEN "open" ELSE "makedirs"]
    /\ UNCHANGED << renderer, conversation_history, api_calls_history, api_calls_count,
                    temperature, max_tokens, session_steps, search_history,
                    tasks_or_interactions, session_metadata, model_data, clock,
                    dirExists, files, cleared_lists, session_count, fault >>

\* os.makedirs(responses_dir), line 202: FileExistsError when the directory
\* is there by now; the call is outside every try block and the exception
\* ends the caller
MakeDirs(p) ==
    /\ pc[p] = "makedirs"
    /\ IF dirExists
       THEN /\ pc' = [pc EXCEPT ![p] = "raised"]
            /\ result' = [result EXCEPT ![p].returned = "raised"]
            /\ UNCHANGED dirExists
       ELSE /\ dirExists' = TRUE
            /\ pc' = [pc EXCEPT ![p] = "open"]
            /\ result' = [result EXCEPT ![p].created = TRUE]
    /\ UNCHANGED << renderer, conversation_history, api_calls_history, api_calls_count,
                    temperature, max_tokens, session_steps, search_history,
                    tasks_or_interactions, session_metadata, model_data, clock,
                    files, cleared_lists, session_count, fault >>

\* `return responses_dir`, the timestamp, and open(filepath, 'w')
OpenFile(p) ==
    /\ pc[p] = "open"
    /\ result' = [result EXCEPT ![p].responses_dir = "responses",
                                ![p].timestamp = clock]
    /\ files' = WriteFile(files, FileOf(p)', << >>)
    /\ pc' = [pc EXCEPT ![p] = "write"]
    /\ UNCHANGED << renderer, conversation_history, api_calls_history, api_calls_count,
                    temperature, max_tokens, session_steps, search_history,
                    tasks_or_interactions, session_metadata, model_data, clock,
                    dirExists, cleared_lists, session_count, fault >>

\* one file.write, and `return filepath` after the last
WriteLine(p) ==
    /\ pc[p] = "write"
    /\ LET lines == ReportLines(result[p].script_name)
           k     == Len(result[p].doc) + 1
       IN /\ files' = [files EXCEPT ![FileOf(p)] = WriteAt(@, k, lines[k])]
          /\ result' = [result EXCEPT ![p].doc = Append(@, lines[k]),
                                      ![p].returned = IF k = Len(lines) THEN "path"
                                                      ELSE @]
          /\ pc' = [pc EXCEPT ![p] = IF k = Len(lines) THEN "returned" ELSE "write"]
    /\ UNCHANGED << renderer, conversation_history, api_calls_history, api_calls_count,
                    temperature, max_tokens, session_steps, search_history,
                    tasks_or_interactions, session_metadata, model_data, clock,
                    dirExists, cleared_lists, session_count, fault >>

InitRace ==
    /\ renderer = "race"
    /\ dirExists \in BOOLEAN
    /\ pc = [p \in Procs |-> "exists"]
    /\ \E scripts \in [Procs -> Scripts] :
          result = [p \in Procs |->
                      [saw |-> FALSE, created |-> FALSE, returned |-> "not called",
                       responses_dir |-> "", timestamp |-> 0,
                       script_name |-> scripts[p], doc |-> << >>]]
    /\ files = NoFiles
    /\ clock = 0
    /\ temperature = "0.7"
    /\ max_tokens = "4000"
    /\ conversation_history = << >>
    /\ api_calls_count = 0
    /\ api_calls_history = << >>
    /\ cleared_lists = << >>
    /\ session_metadata = EmptyDict
    /\ model_data = EmptyDict
    /\ session_steps = << >>
    /\ search_history = << >>
    /\ tasks_or_interactions = << >>
    /\ session_count = 0
    /\ fault = OkIo

NextRace ==
    \/ \E p \in Procs : Exists(p)
    \/ \E p \in Procs : MakeDirs(p)
    \/ \E p \in Procs : OpenFile(p)
    \/ \E p \in Procs : WriteLine(p)
    \/ Tick

SpecRace == InitRace /\ [][NextRace]_vars

----------------------------------------------------------------------------
(* Properties of the renderers *)

\* the headers whose value must not reach a report
SecretNames == { H_AUTHORIZATION, H_X_AUTH_TOKEN }

\* the document written by the call that has returned
Doc == result.doc

Positions(tags) == { p \in DOMAIN Doc : Doc[p].tag \in tags }

\* the record a "headers" line at position p was written for: the line's num
\* is the 1-based position of the record in the list the renderer was given
SourceHeaders(p) ==
    LET n == Doc[p].num
    IN CASE renderer = "chat"    -> Get(api_calls_history[n], "headers", << >>)
         [] renderer = "manual"  -> Get(api_calls_history[n], "headers", << >>)
         [] renderer = "tool"    ->
                Get(Get(session_steps[n], "api_details", EmptyDict), "headers", << >>)
         [] renderer = "context" ->
                Get(Get(search_history[n], "api_details", EmptyDict), "headers", << >>)

\* the line a header must yield
ExpectedHeaderLine(headers, i) ==
    L("header", i, headers[i][1],
      IF headers[i][1] \in SecretNames THEN "[REDACTED]" ELSE headers[i][2])

\* C1: wherever a renderer lists the request headers of a record, the list
\* holds exactly one line per header of that record, in the record's order,
\* showing [REDACTED] for the names that contain token or authorization in
\* any case and the original value for every other name.
C1_HeadersRedactedInOrder ==
    pc = "done" =>
        /\ \A p \in Positions({"headers"}) :
             LET headers == SourceHeaders(p)
             IN /\ p + Len(headers) <= Len(Doc)
                /\ \A i \in 1..Len(headers) : Doc[p + i] = ExpectedHeaderLine(headers, i)
                /\ p + Len(headers) + 1 <= Len(Doc) => Doc[p + Len(headers) + 1].tag # "header"
        /\ \A q \in Positions({"header"}) :
             \E p \in Positions({"headers"}) : p < q /\ q <= p + Len(SourceHeaders(p))

\* a report that lists a redacted header followed by an untouched one
C1_Witness ==
    /\ pc = "done"
    /\ result.returned = "path"
    /\ \E p \in DOMAIN Doc :
         /\ p + 1 \in DOMAIN Doc
         /\ Doc[p].tag = "header" /\ Doc[p].name = H_X_AUTH_TOKEN /\ Doc[p].val = "[REDACTED]"
         /\ Doc[p + 1].tag = "header" /\ Doc[p + 1].name = H_ACCEPT
         /\ Doc[p + 1].val = "application/json"

\* the positions in Doc of the lines with the tag, in document order
RECURSIVE PositionsFrom(_, _)
PositionsFrom(tag, p) ==
    IF p > Len(Doc) THEN << >>
    ELSE (IF Doc[p].tag = tag THEN << p >> ELSE << >>) \o PositionsFrom(tag, p + 1)

IsUser(message) == Get(message, "role", "unknown") = "user"

\* the user messages of the conversation given to the chat renderer
UserMessages == SelectSeq(conversation_history, IsUser)

HasTag(p, tag) == p \in DOMAIN Doc /\ Doc[p].tag = tag

\* C5: the chat renderer numbers the user messages 1..K in order of
\* appearance; the API block after the k-th user message shows the k-th
\* api-call record; the token usage after an assistant message that follows
\* n >= 1 user messages shows the usage of the n-th api-call record.
C5_ChatPositionalPairing ==
    (pc = "done" /\ renderer = "chat") =>
        LET users == PositionsFrom("user_message", 1)
        IN /\ Len(users) <= Len(UserMessages)
           /\ result.returned = "path" => Len(users) = Len(UserMessages)
           /\ \A k \in DOMAIN users :
                /\ Doc[users[k]].num = k
                /\ Doc[users[k]].val = Get(UserMessages[k], "content", "")
                /\ k <= Len(api_calls_history) => HasTag(users[k] + 1, "api_request")
                /\ HasTag(users[k] + 1, "api_request") =>
                     /\ k <= Len(api_calls_history)
                     /\ Doc[users[k] + 1].num = k
                     /\ Doc[users[k] + 2] =
                          L("endpoint", k, NoLine, Get(api_calls_history[k], "url", "N/A"))
                     /\ \E q \in DOMAIN Doc :
                          /\ q > users[k]
                          /\ Doc[q] = L("request_payload", k, NoLine,
                                        Get(api_calls_history[k], "request_payload", "{}"))
                          /\ \A m \in DOMAIN users : users[m] > users[k] => q < users[m]
           /\ \A p \in Positions({"assistant_response"}) :
                LET n == Cardinality({ u \in Positions({"user_message"}) : u < p })
                IN n >= 1 =>
                     /\ HasTag(p + 1, "usage") =>
                          /\ n <= Len(api_calls_history)
                          /\ "usage" \in DOMAIN api_calls_history[n]
                          /\ Doc[p + 2].val = api_calls_history[n].usage.prompt_tokens
                          /\ Doc[p + 3].val = api_calls_history[n].usage.completion_tokens
                          /\ Doc[p + 4].val = api_calls_history[n].usage.total_tokens
                     /\ (n <= Len(api_calls_history)
                           /\ "usage" \in DOMAIN api_calls_history[n])
                          => HasTag(p + 1, "usage")

\* a report of two exchanges, the second with its own API block and usage
C5_Witness ==
    /\ pc = "done" /\ renderer = "chat" /\ result.returned = "path"
    /\ Len(api_calls_history) = 2
    /\ \E p, q \in DOMAIN Doc :
         /\ p < q
         /\ Doc[p] = L("api_request", 2, NoLine, "API Request")
         /\ Doc[q].tag = "assistant_response" /\ Doc[q].num = 2
         /\ HasTag(q + 1, "usage")
         /\ Doc[q + 4].val = api_calls_history[2].usage.total_tokens

\* the turns of the session: the user messages of a chat, the tasks of the
\* refactoring examples, the interactions of an interactive session
TurnCount ==
    IF renderer = "chat" THEN Len(UserMessages) ELSE Len(tasks_or_interactions)

TurnTags == { "user_message", "h3_task", "h3_interaction" }

HasTurns ==
    \/ renderer = "chat"
    \/ /\ renderer = "manual"
       /\ Get(session_metadata, "mode", NoLine)
            \in { REFACTORING_EXAMPLES, INTERACTIVE_CONTEXT }

\* C6: with fewer api-call records than turns the renderer returns a file
\* path, renders every turn, and leaves the API block out of exactly the
\* turns past the end of the api-call list.
C6_ShortApiHistoryRenders ==
    (pc = "done" /\ HasTurns /\ Len(api_calls_history) < TurnCount) =>
        /\ result.returned = "path"
        /\ Cardinality(Positions(TurnTags)) = TurnCount
        /\ \A k \in 1..TurnCount :
             (\E p \in Positions({"api_request"}) : Doc[p].num = k)
                <=> k <= Len(api_calls_history)

\* an assistant message stands before every user message of the conversation
AssistantSpeaksFirst ==
    \E i \in DOMAIN conversation_history :
        /\ Get(conversation_history[i], "role", "unknown") = "assistant"
        /\ \A j \in 1..(i - 1) : ~ IsUser(conversation_history[j])

\* the same statement for the conversations in which no assistant message
\* stands before the first user message
ShortApiHistoryRendersAfterUser ==
    (renderer = "chat" /\ AssistantSpeaksFirst) \/ C6_ShortApiHistoryRenders

\* the request headers of every record given to the renderer under call
GivenHeaders ==
    LET of(records, key) ==
            UNION { { h[i] : i \in DOMAIN h } :
                      h \in { Get(IF key = "" THEN records[n]
                                  ELSE Get(records[n], key, EmptyDict),
                                  "headers", << >>) : n \in DOMAIN records } }
    IN CASE renderer = "chat"    -> of(api_calls_history, "")
         [] renderer = "manual"  -> of(api_calls_history, "")
         [] renderer = "tool"    -> of(session_steps, "api_details")
         [] renderer = "context" -> of(search_history, "api_details")

\* C2: no line of a written report shows the original value of a request
\* header whose name contains token or authorization, whatever the metadata,
\* include_raw_data among them.
C2_NoSecretInReport ==
    pc = "done" =>
        \A h \in GivenHeaders :
            h[1] \in SecretNames => \A p \in DOMAIN Doc : Doc[p].val # h[2]

\* the same statement for the reports written without include_raw_data
NoSecretWithoutRawData ==
    (renderer = "context" /\ Get(session_metadata, "include_raw_data", FALSE))
        \/ C2_NoSecretInReport

\* the kinds of the steps of the session, in order
StepKinds == [i \in DOMAIN session_steps |-> Get(session_steps[i], "step_type", "unknown")]

KnownKinds == { "initial_request", "tool_execution", "final_response" }

IsKnownKind(kind) == kind \in KnownKinds

\* C10: the tool-calling report holds one H3 heading for each step of kind
\* initial_request, tool_execution or final_response, in step order, and a
\* Tool Execution heading exactly when the session has a tool_execution step.
C10_OneHeadingPerStep ==
    (pc = "done" /\ renderer = "tool") =>
        LET heads == SelectSeq(Doc, LAMBDA line :
                        line.tag \in { "h3_initial_request", "h3_tool_execution",
                                       "h3_final_response" })
            kinds == SelectSeq(StepKinds, IsKnownKind)
        IN /\ Len(heads) = Len(kinds)
           /\ \A k \in DOMAIN heads : heads[k].tag = "h3_" \o kinds[k]
           /\ (\E p \in DOMAIN Doc : Doc[p].tag = "h3_tool_execution")
                <=> (\E i \in DOMAIN StepKinds : StepKinds[i] = "tool_execution")

\* the session opens with an initial_request step that carries api_details,
\* so that json is bound when the first tool call is rendered
OpensWithInitialRequest ==
    /\ session_steps # << >>
    /\ StepKinds[1] = "initial_request"
    /\ Truthy(Get(session_steps[1], "api_details", EmptyDict))

\* some tool call of the session has a result whose parse raises an
\* exception other than JSONDecodeError and TypeError
SomeResultEscapesFallback ==
    \E i \in 1..Len(session_steps) :
        LET tool_calls == Get(session_steps[i], "tool_calls", << >>)
        IN /\ StepKinds[i] = "tool_execution"
           /\ \E j \in 1..Len(tool_calls) :
                 FunctionResultRaises(Get(tool_calls[j], "function_result", NoFunctionResult))

\* the same statement for the sessions whose first step is an
\* initial_request with api_details, which binds json before any use, and
\* whose tool call results raise nothing the fallback of line 443 lets through
OneHeadingPerStepAfterInitialRequest ==
    (renderer = "tool" /\ (~ OpensWithInitialRequest \/ SomeResultEscapesFallback))
    \/ C10_OneHeadingPerStep

\* the session has the shape the scripts record: a chat opens with a user
\* message, a tool-calling session with an initial_request step
WellShaped ==
    CASE renderer = "chat" -> ~ AssistantSpeaksFirst
      [] renderer = "tool" -> session_steps # << >> /\ StepKinds[1] = "initial_request"
      [] OTHER -> TRUE

\* C8: whichever keys are absent from the metadata and the records, the
\* renderer returns a file path and the report is written to its end.
C8_MissingKeysStillRender ==
    (pc = "done" /\ WellShaped) =>
        /\ result.returned = "path"
        /\ Doc # << >> /\ Doc[Len(Doc)].tag \in { "continue", "raw_results" }

\* the same statement for the chat, context-search and manual-context
\* renderers, which use json nowhere, when the mode holds no path separator
MissingKeysRenderOutsideToolRenderer ==
    \/ renderer = "tool"
    \/ Contains(Get(session_metadata, "mode", UNKNOWN), << "/" >>)
    \/ C8_MissingKeysStillRender

\* C4: in the chat loop, after any sequence of commands, there are as many
\* api-call records as user messages in conversation_history, and the k-th
\* record is the one captured for the k-th user message.
C4_OneRecordPerUserMessage ==
    pc = "input" =>
        /\ Len(UserMessages) = Len(api_calls_history)
        /\ \A k \in 1..Len(api_calls_history) :
              api_calls_history[k].posted = UserMessages[k].content

\* the same statement for the sessions in which every call so far returned a
\* tuple and `clear` was never typed
OneRecordPerUserMessageWithoutFailureOrClear ==
    (pc = "input" /\ Len(api_calls_history) = api_calls_count /\ cleared_lists = << >>)
        => C4_OneRecordPerUserMessage

\* C7: in the chat loop the conversation is in strict user/assistant
\* alternation starting with a user message, in every reachable state that
\* follows a complete command.
C7_StrictAlternation ==
    \A i \in 1..Len(conversation_history) :
        conversation_history[i].role = IF i % 2 = 1 THEN "user" ELSE "assistant"

\* the same statement for the conversations in which every user message got
\* its reply
StrictAlternationWhenEveryCallReplies ==
    \/ (\E i \in 1..Len(conversation_history) :
            /\ conversation_history[i].role = "user"
            /\ (i = Len(conversation_history)
                   \/ conversation_history[i + 1].role # "assistant"))
    \/ C7_StrictAlternation

\* building the filename fails: model_id is None where the renderer calls
\* its replace method
FilenameFails ==
    /\ renderer \in { "chat", "tool", "manual" }
    /\ Get(session_metadata, "model_id", UNKNOWN) = NONE

\* C3: when creating the directory, building the filename, opening the file
\* or writing to it fails, the renderer returns None: no exception reaches
\* the caller.
C3_FailuresReturnNone ==
    (pc = "done" /\ (fault.kind # "ok" \/ FilenameFails))
        => result.returned = "None"

\* the same statement for the failures inside the try block: open and write
OpenAndWriteFailuresReturnNone ==
    (pc = "done" /\ fault.kind \in { "open_error", "write_error" } /\ ~ FilenameFails)
        => result.returned = "None"

\* a call returns a path right after a call that returned a path
SecondCallReturns ==
    /\ pc = "call" /\ pc' = "done"
    /\ result.returned = "path"
    /\ result'.returned = "path"

\* C9: when a renderer is called twice within one clock second with the same
\* script name and the same qualifiers, the file at the path the first call
\* returned still holds the first call's document after the second call.
C9_NoSilentOverwrite ==
    [][(/\ SecondCallReturns
        /\ result'.path[1].timestamp = result.path[1].timestamp
        /\ result'.path[1].script_name = result.path[1].script_name
        /\ result'.path[1].qualifiers = result.path[1].qualifiers)
          => files'[result.path[1]] = result.doc]_vars

\* the same statement for two calls that differ in the second, the script
\* name or a qualifier
NoOverwriteUnderAnotherName ==
    [][(SecondCallReturns /\ result'.path[1] # result.path[1])
          => files'[result.path[1]] = result.doc]_vars

\* the positions of the steps of a kind the renderer does not know
UnknownPositions == { i \in 1..Len(session_steps) : ~ IsKnownKind(StepKinds[i]) }

\* a document without the positions of its lines in the loops that wrote them
Unnumbered(doc) ==
    [k \in 1..Len(doc) |-> [tag |-> doc[k].tag, name |-> doc[k].name, val |-> doc[k].val]]

\* the outcome of the tool-calling renderer for the same session without its
\* steps of unknown kind
WithoutUnknownSteps ==
    SaveToolCallingSessionToMarkdown(
        SelectSeq(session_steps, LAMBDA step : IsKnownKind(Get(step, "step_type", "unknown"))),
        session_metadata, "03-tools", clock, FALSE, NoFiles, OkIo)

\* C11: a step of unknown kind is skipped by the tool-calling renderer: no
\* heading is written for it, and apart from the "---" that closes every
\* step the document and the value returned are those of the session
\* without the step.
C11_UnknownStepsSkipped ==
    (pc = "done" /\ renderer = "tool") =>
        /\ result.returned = WithoutUnknownSteps.returned
        /\ Unnumbered(SelectSeq(Doc, LAMBDA l :
                          ~ (l.tag = "separator" /\ l.num \in UnknownPositions)))
             = Unnumbered(WithoutUnknownSteps.doc)
        /\ \A k \in 1..Len(Doc) :
              Doc[k].num \in UnknownPositions =>
                  Doc[k].tag \notin { "h3_initial_request", "h3_tool_execution",
                                      "h3_final_response" }

\* a session with a step of unknown kind between two rendered steps, saved
C11_Witness ==
    /\ pc = "done" /\ renderer = "tool"
    /\ result.returned = "path"
    /\ \E i \in UnknownPositions :
          /\ \E j \in 1..(i - 1) : j \notin UnknownPositions
          /\ \E j \in (i + 1)..Len(session_steps) : j \notin UnknownPositions

RECURSIVE ExpectedResultLines(_, _)
\* the result lines of the tool calls of steps i.. in order: pretty-printed
\* for a result that parses or serializes, the raw text otherwise
ExpectedResultLines(steps, i) ==
    IF i > Len(steps) THEN << >>
    ELSE (IF Get(steps[i], "step_type", "unknown") = "tool_execution"
          THEN LET tool_calls == Get(steps[i], "tool_calls", << >>)
               IN [j \in 1..Len(tool_calls) |->
                     LET r == Get(tool_calls[j], "function_result", NoFunctionResult)
                     IN [tag |-> IF r.raises = "none" THEN "result_pretty" ELSE "result_raw",
                         name |-> NoLine, val |-> r.text]]
          ELSE << >>)
         \o ExpectedResultLines(steps, i + 1)

\* the result lines of the document
ResultLinesOf(doc) ==
    Unnumbered(SelectSeq(doc, LAMBDA l : l.tag \in { "result_pretty", "result_raw" }))

\* C12: in a session that opens with an initial_request step carrying
\* api_details, every tool call's result is written, pretty-printed when it
\* parses and as its raw text when it does not; whatever the result value,
\* nothing is raised and the renderer writes the report to its end.
C12_ResultFallbackNeverRaises ==
    (pc = "done" /\ renderer = "tool" /\ OpensWithInitialRequest) =>
        /\ result.returned = "path"
        /\ ResultLinesOf(Doc) = ExpectedResultLines(session_steps, 1)

\* the same statement for the results that parse, serialize, or raise
\* JSONDecodeError or TypeError
ResultFallbackForDecodeAndTypeErrors ==
    SomeResultEscapesFallback \/ C12_ResultFallbackNeverRaises

\* the response times of the search records, an absent one read as 0
Latencies ==
    [i \in 1..Len(search_history) |->
        Get(Get(search_history[i], "api_details", EmptyDict), "response_time", 0)]

RECURSIVE Total(_, _)
\* values[i] + ... + values[Len(values)]
Total(values, i) == IF i > Len(values) THEN 0 ELSE values[i] + Total(values, i + 1)

\* the number on the summary line of the given tag
Reported(tag) ==
    LET k == CHOOSE k \in 1..Len(Doc) : Doc[k].tag = tag IN Doc[k].num

\* the tags of the five summary lines
SummaryTags == { "total_results", "total_time", "average", "fastest", "slowest" }

\* C13: for a non-empty search history the performance summary of a written
\* report holds each of its five lines once, with total latency the sum of
\* the response times (absent read as 0), fastest their minimum, slowest
\* their maximum, average the tenth nearest to total / number of records,
\* and total results the sum of the result counts; for latencies
\* <<100, 250, 0>>: average 116.7, fastest 0, slowest 250, total 350.
C13_PerformanceSummaryArithmetic ==
    (pc = "done" /\ renderer = "context" /\ search_history # << >> /\ Doc # << >>) =>
        LET n == Len(search_history)
        IN /\ \A tag \in SummaryTags :
                 Cardinality({ k \in 1..Len(Doc) : Doc[k].tag = tag }) = 1
           /\ Reported("total_time") = Total(Latencies, 1)
           /\ \E i \in 1..n : Reported("fastest") = Latencies[i]
           /\ \A i \in 1..n : Reported("fastest") <= Latencies[i]
           /\ \E i \in 1..n : Reported("slowest") = Latencies[i]
           /\ \A i \in 1..n : Reported("slowest") >= Latencies[i]
           /\ LET d == 10 * Total(Latencies, 1) - n * Reported("average")
              IN 2 * d <= n /\ 2 * (0 - d) <= n
           /\ Reported("total_results") =
                 Total([i \in 1..n |-> Len(Get(search_history[i], "results", << >>))], 1)
           /\ Latencies = << 100, 250, 0 >> =>
                 /\ Reported("average") = 1167
                 /\ Reported("fastest") = 0
                 /\ Reported("slowest") = 250
                 /\ Reported("total_time") = 350

\* a written report of three searches with latencies 100, 250 and 0
C13_Witness ==
    /\ pc = "done" /\ renderer = "context"
    /\ result.returned = "path"
    /\ Latencies = << 100, 250, 0 >>
    /\ Reported("average") = 1167

\* the lines of the document that belong to a performance summary
SummaryLines ==
    { k \in 1..Len(Doc) : Doc[k].tag \in SummaryTags \cup { "h2_performance" } }

\* C14: given no search records, the context-search renderer writes a
\* performance summary whose fastest and slowest lines both report 0.
C14_EmptySummaryReportsZero ==
    (pc = "done" /\ renderer = "context" /\ search_history = << >>
        /\ result.returned = "path") =>
        /\ \E k \in 1..Len(Doc) : Doc[k].tag = "fastest" /\ Doc[k].num = 0
        /\ \E k \in 1..Len(Doc) : Doc[k].tag = "slowest" /\ Doc[k].num = 0

\* C14, as the code has it: given no search records the report is written
\* without any performance summary, neither its heading nor one of its five
\* lines; the section appears exactly when there is a record.
C14_NoSummaryWithoutRecords ==
    (pc = "done" /\ renderer = "context" /\ result.returned = "path") =>
        /\ search_history = << >> => SummaryLines = {}
        /\ search_history # << >> => Cardinality(SummaryLines) = 6
        /\ \E k \in 1..Len(Doc) : Doc[k].tag = "h2_history"

\* a report written for an empty search history
C14_Witness ==
    /\ pc = "done" /\ renderer = "context"
    /\ search_history = << >>
    /\ result.returned = "path"
    /\ SummaryLines = {}
    /\ Doc # << >>

\* the positions of the document at which the block of search i begins and ends
BlockStarts(i) == { k \in 1..Len(Doc) : Doc[k].tag = "h3_search" /\ Doc[k].num = i }
BlockEnds(i) == { k \in 1..Len(Doc) : Doc[k].tag = "search_separator" /\ Doc[k].num = i }

\* the lines of the given tag inside the block of search i
InBlock(i, tag) ==
    LET a == CHOOSE k \in BlockStarts(i) : TRUE
        b == CHOOSE k \in BlockEnds(i) : TRUE
    IN SelectSeq(SubSeq(Doc, a, b), LAMBDA l : l.tag = tag)

\* C15: in a written context-search report every search record has exactly
\* one block, the blocks follow the records' order, a record without
\* results shows the "No results found" marker and no result entry, and a
\* record with results shows one entry per result, numbered in order, and
\* no marker.
C15_OneBlockPerSearch ==
    (pc = "done" /\ renderer = "context" /\ Doc # << >>) =>
        LET n == Len(search_history)
            headings == SelectSeq(Doc, LAMBDA l : l.tag = "h3_search")
        IN /\ Len(headings) = n
           /\ \A i \in 1..n :
                 /\ headings[i].num = i
                 /\ headings[i].val = Get(search_history[i], "query", "Unknown")
                 /\ Cardinality(BlockStarts(i)) = 1
                 /\ Cardinality(BlockEnds(i)) = 1
                 /\ \A a \in BlockStarts(i), b \in BlockEnds(i) :
                       /\ a < b
                       /\ i < n => \A c \in BlockStarts(i + 1) : b < c
                 /\ LET results == Get(search_history[i], "results", << >>)
                        entries == InBlock(i, "result")
                        markers == InBlock(i, "no_results")
                    IN /\ Len(entries) = Len(results)
                       /\ \A j \in 1..Len(entries) : entries[j].num = j
                       /\ Len(markers) = (IF results = << >> THEN 1 ELSE 0)
           /\ \A k \in 1..Len(Doc) :
                 Doc[k].tag \in { "result", "no_results" } =>
                     \E i \in 1..n : \E a \in BlockStarts(i), b \in BlockEnds(i) :
                         a < k /\ k < b

\* a written report with a search without results next to one with two
C15_Witness ==
    /\ pc = "done" /\ renderer = "context"
    /\ result.returned = "path"
    /\ \E i, j \in 1..Len(search_history) :
          /\ i < j
          /\ Get(search_history[i], "results", << >>) = << >>
          /\ Len(Get(search_history[j], "results", << >>)) = 2
          /\ Len(InBlock(i, "no_results")) = 1
          /\ Len(InBlock(j, "result")) = 2

\* the key a mode reads the response from and the label it writes before it
ResponseKey ==
    IF Get(session_metadata, "mode", << >>) = INTERACTIVE_CONTEXT
    THEN "assistant_response" ELSE "response"
ResponseLabel ==
    IF Get(session_metadata, "mode", << >>) = INTERACTIVE_CONTEXT THEN "Assistant Response"
    ELSE IF Get(session_metadata, "mode", << >>) = CUSTOM_CONTEXT THEN "AI Analysis"
    ELSE "AI Response"

\* the tasks or interactions the mode's section shows: all of them, the first
\* one in custom_context mode
ShownItems ==
    IF Get(session_metadata, "mode", << >>) = CUSTOM_CONTEXT
    THEN (IF tasks_or_interactions = << >> THEN << >>
          ELSE << tasks_or_interactions[1] >>)
    ELSE tasks_or_interactions

\* has the item a response that is neither absent nor empty?
HasResponse(item) == ResponseKey \in DOMAIN item /\ item[ResponseKey] # ""

RECURSIVE ExpectedResponses(_, _)
\* label and text for an item with a response, the marker for one without
ExpectedResponses(items, k) ==
    IF k > Len(items) THEN << >>
    ELSE (IF HasResponse(items[k])
          THEN << [tag |-> ResponseLabel, val |-> ResponseLabel],
                  [tag |-> "response_text", val |-> items[k][ResponseKey]] >>
          ELSE << [tag |-> ResponseLabel, val |-> "No response received"] >>)
         \o ExpectedResponses(items, k + 1)

\* the response lines of the document, in order
ResponsesOf(doc) ==
    LET lines == SelectSeq(doc, LAMBDA l :
                     l.tag \in { "AI Response", "Assistant Response", "AI Analysis",
                                 "response_text" })
    IN [k \in 1..Len(lines) |-> [tag |-> lines[k].tag, val |-> lines[k].val]]

\* C16: in each of the three manual-context modes a written report shows,
\* for every task or interaction of its section in order, the "No response
\* received" marker when the response is absent or empty and otherwise the
\* response text without the marker; a custom_context session of one task
\* with completed = FALSE and no response shows "AI Analysis: No response
\* received".
C16_NoResponseMarker ==
    (pc = "done" /\ renderer = "manual" /\ result.returned = "path"
        /\ Get(session_metadata, "mode", << >>)
              \in { REFACTORING_EXAMPLES, INTERACTIVE_CONTEXT, CUSTOM_CONTEXT }) =>
        /\ ResponsesOf(Doc) = ExpectedResponses(ShownItems, 1)
        /\ Len(SelectSeq(Doc, LAMBDA l : l.val = "No response received"))
             = Len(SelectSeq(ShownItems, LAMBDA item : ~ HasResponse(item)))
        /\ (/\ Get(session_metadata, "mode", << >>) = CUSTOM_CONTEXT
            /\ Len(tasks_or_interactions) = 1
            /\ ~ Get(tasks_or_interactions[1], "completed", FALSE)
            /\ "response" \notin DOMAIN tasks_or_interactions[1]) =>
               ResponsesOf(Doc) = << [tag |-> "AI Analysis", val |-> "No response received"] >>

\* a written report with an answered item, one answered with an empty text
\* and a failed one among its two items
C16_Witness ==
    /\ pc = "done" /\ renderer = "manual" /\ result.returned = "path"
    /\ Get(session_metadata, "mode", << >>) = INTERACTIVE_CONTEXT
    /\ Len(tasks_or_interactions) = 2
    /\ HasResponse(tasks_or_interactions[1])
    /\ Get(tasks_or_interactions[2], "assistant_response", "x") = ""
    /\ Len(SelectSeq(Doc, LAMBDA l : l.val = "No response received")) = 1

\* a written custom_context report of one failed task without a response
C16_CustomWitness ==
    /\ pc = "done" /\ renderer = "manual" /\ result.returned = "path"
    /\ Get(session_metadata, "mode", << >>) = CUSTOM_CONTEXT
    /\ Len(tasks_or_interactions) = 1
    /\ ~ Get(tasks_or_interactions[1], "completed", FALSE)
    /\ "response" \notin DOMAIN tasks_or_interactions[1]

\* the three modes and the heading of the task section each selects
KnownModes == { REFACTORING_EXAMPLES, INTERACTIVE_CONTEXT, CUSTOM_CONTEXT }

SectionOf(mode) ==
    IF mode = REFACTORING_EXAMPLES THEN "h2_refactoring_tasks"
    ELSE IF mode = INTERACTIVE_CONTEXT THEN "h2_interactive_session"
    ELSE "h2_custom_context"

\* the task section headings of the document, in order
TaskSections ==
    SelectSeq(Doc, LAMBDA l : l.tag \in { SectionOf(m) : m \in KnownModes })

\* C17: the manual-context renderer returns a path and its report holds
\* exactly the task section its mode selects, the context-switch section
\* only in interactive_context mode, and for a mode outside the three no
\* task section at all.
C17_ModeSelectsSection ==
    (pc = "done" /\ renderer = "manual") =>
        LET mode == Get(session_metadata, "mode", << >>)
        IN /\ result.returned = "path"
           /\ mode \in KnownModes =>
                 Len(TaskSections) = 1 /\ TaskSections[1].tag = SectionOf(mode)
           /\ mode \notin KnownModes => TaskSections = << >>
           /\ (\E k \in 1..Len(Doc) : Doc[k].tag = "h2_context_management")
                 => mode = INTERACTIVE_CONTEXT

\* the same statement for the modes that hold no path separator
ModeSelectsSectionWithoutSeparator ==
    (renderer = "manual" /\ Contains(Get(session_metadata, "mode", << >>), << "/" >>))
    \/ C17_ModeSelectsSection

\* the filename the writer under call builds from its arguments
GeneratedFilename ==
    IF renderer = "model_instance"
    THEN ModelInstanceFilename(model_data, "model-instance", clock)
    ELSE IF renderer = "chat" THEN ChatFilename(session_metadata, "02-chat", clock)
    ELSE IF renderer = "tool" THEN ToolFilename(session_metadata, "03-tools", clock)
    ELSE IF renderer = "context"
    THEN ContextFilename(session_metadata, "04-context", clock)
    ELSE ManualFilename(session_metadata, "05-manual-context", clock)

RECURSIVE JoinQualifiers(_)
\* the qualifiers as they stand in the name, with "_" between them
JoinQualifiers(qualifiers) ==
    IF qualifiers = << >> THEN << >>
    ELSE IF Len(qualifiers) = 1 THEN qualifiers[1]
    ELSE qualifiers[1] \o << "_" >> \o JoinQualifiers(Tail(qualifiers))

\* a text that holds neither "::" nor "/"
Clean(text) == ~ Contains(text, << ":", ":" >>) /\ ~ Contains(text, << "/" >>)

\* C18: the name built by the chat, tool-calling, manual-context and
\* model-instance writers holds the model id without any "::" or "/",
\* whatever the id (runs of three and more colons included); with one of
\* the scripts' modes the whole qualified part of the manual-context name
\* holds neither, and the file is written under that name.
C18_ModelIdSanitized ==
    (renderer \in { "chat", "tool", "manual", "model_instance" }) =>
        LET qualifiers == GeneratedFilename.qualifiers
        IN /\ Clean(qualifiers[Len(qualifiers)])
           /\ (renderer = "manual" =>
                  Get(session_metadata, "mode", << >>) \in KnownModes) =>
                 /\ Clean(JoinQualifiers(qualifiers))
                 /\ pc = "done" =>
                       /\ result.returned = "path"
                       /\ result.path = << GeneratedFilename >>

\* a manual-context report saved for a model id of five colons
C18_Witness ==
    /\ pc = "done" /\ renderer = "manual"
    /\ Get(session_metadata, "model_id", << >>) = << ":", ":", ":", ":", ":" >>
    /\ result.returned = "path"
    /\ result.path = << GeneratedFilename >>
    /\ GeneratedFilename.qualifiers = << INTERACTIVE_CONTEXT, << "_", "_", ":" >> >>

\* the qualifiers of the name in the order mode, then model id
InOrderModeThenModel ==
    LET qualifiers == GeneratedFilename.qualifiers
        mode == Get(session_metadata, "mode", UNKNOWN)
    IN /\ Len(qualifiers) = (IF renderer = "manual" THEN 2 ELSE 1)
       /\ Clean(mode) => qualifiers[1] = mode
       /\ renderer = "manual" =>
             qualifiers[2] = Sanitize(Get(session_metadata, "model_id", UNKNOWN))

\* C19: whatever the mode and the model id, the name under which the
\* context-search and the manual-context renderer have saved (or tried to
\* save) a report holds no "/" and no "::", its qualifiers being the mode,
\* then the model id.
C19_EveryQualifierSanitized ==
    (pc = "done" /\ renderer \in { "context", "manual" }) =>
        /\ Clean(JoinQualifiers(GeneratedFilename.qualifiers))
        /\ InOrderModeThenModel

\* the same statement for the modes that hold neither "/" nor "::"
QualifiersCleanForCleanModes ==
    (renderer \in { "context", "manual" }
        /\ ~ Clean(Get(session_metadata, "mode", UNKNOWN)))
    \/ C19_EveryQualifierSanitized

\* a report is written under a name that holds "::", and none is written
\* when the mode holds "/"
UnsanitizedModeInName ==
    (pc = "done" /\ renderer \in { "context", "manual" }) =>
        LET mode == Get(session_metadata, "mode", UNKNOWN)
        IN /\ Contains(mode, << "/" >>) => result.returned = "None"
           /\ (~ Contains(mode, << "/" >>) /\ Contains(mode, << ":", ":" >>)) =>
                 /\ result.returned = "path"
                 /\ Contains(JoinQualifiers(result.path[1].qualifiers), << ":", ":" >>)

\* a step in which a save function, and with it _ensure_responses_directory,
\* is called
SaveStep == pc = "call" /\ pc' = "done"

\* C20: over any sequence of calls _ensure_responses_directory creates the
\* responses directory only when it is absent and never again afterwards,
\* raises nothing when the directory exists, leaves the files of the
\* directory as they are, and returns the same path, "responses", each time.
C20_EnsureDirectoryIdempotent ==
    [][/\ dirExists => dirExists'
       /\ SaveStep =>
            /\ dirExists =>
                  /\ result'.responses_dir = "responses"
                  /\ result'.returned = "raised" => FilenameFails'
            /\ ~ dirExists =>
                  /\ dirExists' <=> fault'.kind # "mkdir_error"
                  /\ dirExists' => result'.responses_dir = "responses"
            /\ result'.returned \in { "path", "None" } =>
                  result'.responses_dir = "responses"
            /\ \A f \in DOMAIN files :
                  /\ f \in DOMAIN files'
                  /\ (result'.returned = "raised" \/ fault'.kind = "open_error")
                        => files'[f] = files[f]]_vars

\* a later call has found the directory, with a report in it, and returned
C20_Witness ==
    /\ pc = "done"
    /\ session_count >= 1
    /\ dirExists
    /\ result.returned = "path"
    /\ result.responses_dir = "responses"
    /\ Cardinality(DOMAIN files) >= 2

\* the api-call records whose detail block the mode's section writes: record
\* i for the i-th task or interaction, the first record alone in
\* custom_context mode, none for an unknown mode
RenderedCalls ==
    LET mode == Get(session_metadata, "mode", << >>)
        n == IF Len(api_calls_history) < Len(ShownItems)
             THEN Len(api_calls_history) ELSE Len(ShownItems)
    IN IF mode \in KnownModes THEN SubSeq(api_calls_history, 1, n) ELSE << >>

\* the response bodies of the rendered records that carry one, in order
RenderedBodies ==
    LET with == SelectSeq(RenderedCalls, LAMBDA c :
                    "error" \in DOMAIN c /\ "response_body" \in DOMAIN c.error)
    IN [k \in 1..Len(with) |-> with[k].error.response_body]

\* the "Response Body" lines of the document, in order
BodyLines == SelectSeq(Doc, LAMBDA l : l.tag = "error_response_body")

\* C21: in a written manual-context report every rendered api-call record
\* whose error carries a response body has one "Response Body" line, which
\* shows the first min(200, length) characters of the body, never more than
\* 200, followed by "...", whatever the length of the body.
C21_ErrorBodyTruncated ==
    (pc = "done" /\ renderer = "manual" /\ result.returned = "path") =>
        /\ Len(BodyLines) = Len(RenderedBodies)
        /\ \A k \in 1..Len(BodyLines) :
              LET shown == BodyLines[k].name
                  body  == RenderedBodies[k]
              IN /\ Len(shown) <= 200
                 /\ Len(shown) = (IF Len(body) < 200 THEN Len(body) ELSE 200)
                 /\ \A c \in 1..Len(shown) : shown[c] = body[c]
                 /\ BodyLines[k].val = "..."

\* a written report with the body of 201 characters cut to 200
C21_Witness ==
    /\ pc = "done" /\ renderer = "manual" /\ result.returned = "path"
    /\ Len(RenderedBodies) = 1
    /\ Len(RenderedBodies[1]) = 201
    /\ Len(BodyLines) = 1
    /\ Len(BodyLines[1].name) = 200

\* a written report with a body shorter than the limit, shown whole
C21_ShortBodyWitness ==
    /\ pc = "done" /\ renderer = "manual" /\ result.returned = "path"
    /\ Len(RenderedBodies) = 1
    /\ Len(RenderedBodies[1]) = 3
    /\ Len(BodyLines) = 1
    /\ BodyLines[1].name = << "1", "2", "3" >>

\* the number of lines of the document with the given tag and number
CountLines(tag, num) ==
    Len(SelectSeq(Doc, LAMBDA l : l.tag = tag /\ l.num = num))

\* the number of headers of the records that have a `headers` key
RECURSIVE HeaderCount(_)
HeaderCount(calls) ==
    IF calls = << >> THEN 0
    ELSE (IF "headers" \in DOMAIN Head(calls) THEN Len(Head(calls).headers) ELSE 0)
         + HeaderCount(Tail(calls))

\* the five lines every sub-block holds, with the value of the record or
\* the N/A placeholder
FixedDetailLines(k) ==
    LET call == RenderedCalls[k]
    IN /\ CountLines("api_request", k) = 1
       /\ \A f \in { << "endpoint", "url" >>, << "status_code", "status_code" >>,
                     << "response_time", "response_time" >>,
                     << "context_size", "context_size" >>,
                     << "context_description", "context_description" >> } :
             /\ CountLines(f[1], k) = 1
             /\ \E p \in 1..Len(Doc) :
                   Doc[p] = L(f[1], k, NoLine, Get(call, f[2], "N/A"))

\* the token usage blocks of the document are those of the rendered records
\* whose usage is present and not empty
UsageExactlyWhenNonEmpty ==
    Len(SelectSeq(Doc, LAMBDA l : l.tag = "usage"))
        = Len(SelectSeq(RenderedCalls, LAMBDA c : Truthy(Get(c, "usage", EmptyDict))))

\* C22: every api-call sub-block of a written manual-context report holds
\* the endpoint, status code, response time, context size and context
\* description of its record; it holds the headers list, secrets redacted,
\* exactly when the record has a `headers` key and the request payload
\* block exactly when the record has a `request_payload` key; token usage
\* is written exactly when usage is present and not empty.
C22_DetailBlockFollowsKeys ==
    (pc = "done" /\ renderer = "manual" /\ result.returned = "path") =>
        /\ \A k \in 1..Len(RenderedCalls) :
              /\ FixedDetailLines(k)
              /\ CountLines("headers", k)
                    = (IF "headers" \in DOMAIN RenderedCalls[k] THEN 1 ELSE 0)
              /\ CountLines("request_payload", k)
                    = (IF "request_payload" \in DOMAIN RenderedCalls[k] THEN 1 ELSE 0)
        /\ Len(SelectSeq(Doc, LAMBDA l : l.tag = "header")) = HeaderCount(RenderedCalls)
        /\ \A p \in 1..Len(Doc) :
              (Doc[p].tag = "header" /\ IsSecretHeader(Doc[p].name))
                  => Doc[p].val = REDACTED
        /\ UsageExactlyWhenNonEmpty

\* the same with the headers list and the payload block in every sub-block,
\* whether or not the record has the keys
C22_DetailBlockAlwaysComplete ==
    (pc = "done" /\ renderer = "manual" /\ result.returned = "path") =>
        /\ \A k \in 1..Len(RenderedCalls) :
              /\ FixedDetailLines(k)
              /\ CountLines("headers", k) = 1
              /\ CountLines("request_payload", k) = 1
        /\ UsageExactlyWhenNonEmpty

\* a written report whose record has neither headers nor a payload, and a
\* sub-block without the two
C22_Witness ==
    /\ pc = "done" /\ renderer = "manual" /\ result.returned = "path"
    /\ Len(RenderedCalls) = 1
    /\ "headers" \notin DOMAIN RenderedCalls[1]
    /\ "request_payload" \notin DOMAIN RenderedCalls[1]
    /\ CountLines("api_request", 1) = 1
    /\ CountLines("headers", 1) = 0
    /\ CountLines("request_payload", 1) = 0

\* a written report with a full record: headers with a redacted secret,
\* payload and usage in the sub-block
C22_FullRecordWitness ==
    /\ pc = "done" /\ renderer = "manual" /\ result.returned = "path"
    /\ Len(RenderedCalls) >= 1
    /\ "headers" \in DOMAIN RenderedCalls[1]
    /\ CountLines("headers", 1) = 1
    /\ CountLines("request_payload", 1) = 1
    /\ \E p \in 1..Len(Doc) : Doc[p].tag = "header" /\ Doc[p].val = REDACTED
    /\ \E p \in 1..Len(Doc) : Doc[p].tag = "usage"

\* every step of the session is of one of the three kinds the renderer
\* knows, and no tool call result raises past the fallback of line 443
WellFormedSteps ==
    /\ \A i \in 1..Len(session_steps) : StepKinds[i] \in KnownKinds
    /\ ~ SomeResultEscapesFallback

\* C23: the tool-calling renderer returns a file path for every ordered
\* sequence of well-formed steps, whichever kinds precede which, also when
\* no initial_request step with non-empty api_details comes first.
C23_AnyStepOrderRenders ==
    (pc = "done" /\ renderer = "tool" /\ WellFormedSteps) =>
        /\ result.returned = "path"
        /\ Doc # << >> /\ Doc[Len(Doc)].tag = "continue"

\* the same statement for the sessions that open with an initial_request
\* step with non-empty api_details, the one statement that binds json
AnyStepOrderRendersAfterInitialRequest ==
    (pc = "done" /\ renderer = "tool" /\ WellFormedSteps /\ OpensWithInitialRequest) =>
        /\ result.returned = "path"
        /\ Doc # << >> /\ Doc[Len(Doc)].tag = "continue"

\* a session that opens with a tool_execution step: None is returned and
\* the report stops at the first tool call
ToolExecutionFirstLosesReport ==
    /\ pc = "done" /\ renderer = "tool" /\ WellFormedSteps
    /\ session_steps # << >> /\ StepKinds[1] = "tool_execution"
    /\ Get(session_steps[1], "tool_calls", << >>) # << >>
    /\ result.returned = "None"

\* a session without steps and with a complete_conversation dump: None is
\* returned and the report stops at the heading of the dump
ConversationDumpLosesReport ==
    /\ pc = "done" /\ renderer = "tool"
    /\ session_steps = << >>
    /\ Get(session_metadata, "complete_conversation", "") # ""
    /\ result.returned = "None"
    /\ Doc[Len(Doc)].tag = "h2_complete_conversation"

\* C24: a call of a save_*_to_markdown function that returns None leaves
\* the files of the output directory as they were before the call: no file,
\* complete or partial, was created or changed by it.
C24_NoneLeavesNoFile ==
    [][(SaveStep /\ result'.returned = "None") => files' = files]_vars

\* the same statement for the calls whose open() fails, the one failure
\* inside the try block that happens before the file exists
NoneLeavesNoFileWhenOpenFails ==
    [][(SaveStep /\ result'.returned = "None"
          /\ (fault'.kind = "open_error" \/ HasSeparator(GeneratedFilename')))
            => files' = files]_vars

\* None was returned and the file the call opened is in the directory, cut
\* at the write that failed
PartialFileAfterNone ==
    /\ pc = "done" /\ result.returned = "None"
    /\ fault.kind = "write_error"
    /\ GeneratedFilename \in DOMAIN files
    /\ Len(files[GeneratedFilename]) = fault.cut

\* None was returned by a call that found json unbound, and the file it
\* opened is in the directory with the lines written before the failure
PartialFileAfterUnboundJson ==
    /\ pc = "done" /\ renderer = "tool" /\ result.returned = "None"
    /\ fault.kind = "ok"
    /\ GeneratedFilename \in DOMAIN files
    /\ files[GeneratedFilename] # << >>
    /\ files[GeneratedFilename][Len(files[GeneratedFilename])].tag # "continue"

\* the number of user messages among the first i messages
UsersUpTo(i) ==
    Cardinality({ j \in 1..i : IsUser(conversation_history[j]) })

\* the assistant messages after which the renderer is to write token usage:
\* those of a turn n >= 1 whose record n exists and has a non-empty usage
AssistantsWithUsage ==
    { i \in DOMAIN conversation_history :
        /\ Get(conversation_history[i], "role", "unknown") = "assistant"
        /\ UsersUpTo(i) >= 1
        /\ UsersUpTo(i) <= Len(api_calls_history)
        /\ Truthy(Get(api_calls_history[UsersUpTo(i)], "usage", EmptyDict)) }

\* the token usage blocks of the document
UsageBlocks == { p \in DOMAIN Doc : Doc[p].tag = "usage" }

\* C25: the chat renderer reads api_calls_history only at index n - 1 with
\* n >= 1 the number of user messages seen so far; for an assistant message
\* before any user message it writes no token usage, reads no record and
\* raises nothing, whether api_calls_history is empty or not.
C25_AssistantBeforeUserReadsNothing ==
    (pc = "done" /\ renderer = "chat") =>
        /\ result.returned = "path"
        /\ Cardinality(UsageBlocks) = Cardinality(AssistantsWithUsage)

\* the same statement for the conversations in which no assistant message
\* stands before the first user message
UsageOnlyOfOwnTurnAfterUser ==
    (pc = "done" /\ renderer = "chat" /\ ~ AssistantSpeaksFirst) =>
        /\ result.returned = "path"
        /\ Cardinality(UsageBlocks) = Cardinality(AssistantsWithUsage)

\* an assistant message first and no api-call record: index -1 of an empty
\* list raises IndexError and the report is lost
AssistantFirstRaises ==
    /\ pc = "done" /\ renderer = "chat"
    /\ conversation_history # << >>
    /\ Get(conversation_history[1], "role", "unknown") = "assistant"
    /\ api_calls_history = << >>
    /\ result.returned = "None"
    /\ Doc[Len(Doc)].tag = "assistant_response"

\* an assistant message first and a record with usage: index -1 reads the
\* last record and its usage is written before any user message
AssistantFirstShowsLastUsage ==
    /\ pc = "done" /\ renderer = "chat"
    /\ Len(conversation_history) = 1
    /\ Get(conversation_history[1], "role", "unknown") = "assistant"
    /\ api_calls_history # << >>
    /\ result.returned = "path"
    /\ UsageBlocks # {}

\* handle_tool_calling_conversation has returned a session, which is in
\* session_steps and session_metadata
SessionReturned ==
    /\ renderer = "tool"
    /\ pc \in { "input", "done" }
    /\ "complete_conversation" \in DOMAIN session_metadata

\* the tool calls the first response of the session asked for
AskedToolCalls ==
    IF Len(conversation_history) < 2 THEN << >>
    ELSE Get(conversation_history[2], "tool_calls", << >>)

\* C26: in every session handle_tool_calling_conversation returns with
\* capture enabled the recorded steps carry the step numbers 1..N in list
\* order, N the number of recorded steps, whether the first response asked
\* for tools or not and whether a final text came or not.
C26_StepNumbersConsecutive ==
    SessionReturned =>
        \A i \in 1..Len(session_steps) : session_steps[i].step_number = ToString(i)

\* tool calls followed by a final text: steps 1, 2, 3
C26_Witness ==
    /\ SessionReturned
    /\ AskedToolCalls # << >>
    /\ Len(session_steps) = 3
    /\ session_steps[3].step_type = "final_response"
    /\ session_steps[3].step_number = "3"

\* tool calls without a final text: steps 1, 2
ToolCallsWithoutFinalText ==
    /\ SessionReturned
    /\ AskedToolCalls # << >>
    /\ Len(session_steps) = 2
    /\ session_steps[2].step_type = "tool_execution"
    /\ session_steps[2].step_number = "2"

\* a direct response with content: steps 1, 2
DirectResponseWithContent ==
    /\ SessionReturned
    /\ AskedToolCalls = << >>
    /\ Len(session_steps) = 2
    /\ session_steps[2].step_type = "final_response"
    /\ session_steps[2].step_number = "2"

\* a direct response without content: step 1 alone
DirectResponseWithoutContent ==
    /\ SessionReturned
    /\ AskedToolCalls = << >>
    /\ Len(session_steps) = 1
    /\ session_steps[1].step_number = "1"

\* the kinds of the steps a session may hold, in order
SessionShapes ==
    { << "initial_request" >>,
      << "initial_request", "tool_execution" >>,
      << "initial_request", "final_response" >>,
      << "initial_request", "tool_execution", "final_response" >> }

\* C27: every session handle_tool_calling_conversation returns with capture
\* enabled holds one initial_request step first, then at most one
\* tool_execution step, then at most one final_response step; it holds a
\* tool_execution step exactly when the first response asked for tool calls.
C27_SessionShape ==
    SessionReturned =>
        /\ StepKinds \in SessionShapes
        /\ (\E i \in 1..Len(session_steps) : StepKinds[i] = "tool_execution")
              <=> AskedToolCalls # << >>

\* a response with an empty tool_calls list and content: no tool_execution
\* step, the content recorded as the final response
C27_Witness ==
    /\ SessionReturned
    /\ "tool_calls" \in DOMAIN conversation_history[2]
    /\ AskedToolCalls = << >>
    /\ StepKinds = << "initial_request", "final_response" >>

\* two tool calls and a final text: the three kinds in order
C27_ToolWitness ==
    /\ SessionReturned
    /\ Len(AskedToolCalls) = 2
    /\ StepKinds = << "initial_request", "tool_execution", "final_response" >>
    /\ Len(session_steps[2].tool_calls) = 2

\* every session the handler returns is written to the end by the renderer
\* and its path returned
ReturnedSessionsRender ==
    SessionReturned =>
        /\ result.returned = "path"
        /\ Doc[Len(Doc)].tag = "continue"

\* one of the two callers of 05-manual-context.py is running or has saved
ManualCaller == renderer = "manual" /\ pc \in { "task", "no_context", "ask", "done" }

\* the message and the task name of the request made for item i
RequestOf(i) ==
    LET item == tasks_or_interactions[i]
    IN IF "user_question" \in DOMAIN item
       THEN [user_message |-> item.user_question,
             task_name |-> "Interactive: " \o item.user_question]
       ELSE [user_message |-> item.prompt, task_name |-> item.task_name]

\* record i is the one captured for the request of item i: it holds that
\* request's payload and task name, and an answer came exactly when the
\* record holds a parsed response with choices
PairedWithItem(i) ==
    LET record == api_calls_history[i]
        item   == tasks_or_interactions[i]
    IN /\ record.request_payload = "payload: " \o RequestOf(i).user_message
       /\ record.task_name = RequestOf(i).task_name
       /\ Get(item, "completed", Get(item, "success", FALSE))
             => ("status_code" \in DOMAIN record /\ "error" \notin DOMAIN record)

\* C28: in run_refactoring_examples and interactive_context_mode, after any
\* sequence of requests, succeeding or failing, every record i of
\* api_calls_history is the one captured for the request of the i-th task or
\* interaction, and the saved report shows it in that item's block.
C28_RecordsPairedWithItems ==
    ManualCaller =>
        /\ Len(api_calls_history) <= Len(tasks_or_interactions)
        /\ \A i \in 1..Len(api_calls_history) : PairedWithItem(i)
        /\ result.returned = "path" =>
              \A i \in 1..Len(api_calls_history) :
                 \E p \in 1..Len(Doc) :
                    Doc[p] = L("request_payload", i, NoLine,
                               "payload: " \o RequestOf(i).user_message)

\* a saved refactoring session whose first request failed with an HTTP error
\* and whose second was answered: five records for five tasks
C28_Witness ==
    /\ ManualCaller /\ pc = "done" /\ result.returned = "path"
    /\ Len(tasks_or_interactions) = 5
    /\ Len(api_calls_history) = 5
    /\ ~ tasks_or_interactions[1].completed
    /\ "error" \in DOMAIN api_calls_history[1]
    /\ tasks_or_interactions[2].completed
    /\ "usage" \in DOMAIN api_calls_history[2]

\* a saved interactive session: a request without connection, then an answer
C28_InteractiveWitness ==
    /\ ManualCaller /\ pc = "done" /\ result.returned = "path"
    /\ Len(tasks_or_interactions) = 2
    /\ "user_question" \in DOMAIN tasks_or_interactions[1]
    /\ Len(api_calls_history) = 2
    /\ Get(api_calls_history[1], "error", EmptyDict) =
          [type |-> "RequestException", message |-> "connection refused"]
    /\ tasks_or_interactions[2].success

\* an environment that is not configured: every request returns a bare None
\* and no record is captured
C28_NotConfiguredWitness ==
    /\ ManualCaller /\ fault = NotConfigured
    /\ Len(tasks_or_interactions) = 2
    /\ api_calls_history = << >>

\* C29: when two processes run _ensure_responses_directory concurrently in
\* the same working directory, in every interleaving of their existence
\* checks and directory creations neither call raises, and each returns the
\* path of a directory that exists.
C29_ConcurrentEnsureNeverRaises ==
    renderer = "race" =>
        \A p \in Procs :
            /\ pc[p] # "raised"
            /\ result[p].responses_dir = "responses" => dirExists

\* the same statement but for the one interleaving that fails: a call raises
\* only when it found no directory and the other process created it before
\* this one reached os.makedirs; every call that returns, returns the path of
\* a directory that exists
EnsureRaisesOnlyWhenOvertaken ==
    renderer = "race" =>
        \A p \in Procs :
            /\ pc[p] = "raised" =>
                  /\ ~ result[p].saw
                  /\ \E q \in Procs \ { p } : result[q].created
            /\ result[p].responses_dir = "responses" => dirExists

\* both processes found no directory; one created it and went on to save its
\* report, the other got FileExistsError from os.makedirs
OvertakenCallRaises ==
    /\ renderer = "race"
    /\ \E p \in Procs, q \in Procs :
          /\ p # q
          /\ pc[p] = "raised" /\ result[p].returned = "raised"
          /\ result[q].created /\ result[q].returned = "path"

\* the messages handed to the context-search renderer with the metadata
MetadataConversation == Get(session_metadata, "conversation_history", << >>)

IncludesConversation == Get(session_metadata, "includes_conversation", FALSE)

TranscriptTags ==
    { "h2_conversation", "h3_system", "h3_user", "h3_assistant",
      "conversation_separator" }

\* the positions, in order, of the system, user and assistant messages
RECURSIVE SpokenFrom(_)
SpokenFrom(i) ==
    IF i > Len(MetadataConversation) THEN << >>
    ELSE (IF Get(MetadataConversation[i], "role", "unknown")
                \in { "system", "user", "assistant" }
          THEN << i >> ELSE << >>) \o SpokenFrom(i + 1)

\* a transcript section stands right behind the last search block (behind the
\* heading of the search history when there is no search), holds one entry
\* per system, user or assistant message in conversation order, each with
\* the position and the text of its message, and is closed by a separator
\* before the "Continue Searching" section
TranscriptInPlace ==
    LET spoken == SpokenFrom(1)
        before == Positions({ "h2_history", "search_separator" })
    IN \E p \in DOMAIN Doc :
          /\ Doc[p].tag = "h2_conversation"
          /\ Doc[p].num = Len(MetadataConversation)
          /\ p - 1 \in before /\ \A q \in before : q < p
          /\ p + Len(spoken) + 2 <= Len(Doc)
          /\ \A j \in 1..Len(spoken) :
                LET m == MetadataConversation[spoken[j]]
                IN Doc[p + j] = L("h3_" \o m.role, spoken[j], NoLine, Get(m, "content", ""))
          /\ Doc[p + Len(spoken) + 1].tag = "conversation_separator"
          /\ Doc[p + Len(spoken) + 2].tag = "continue"
          /\ Positions(TranscriptTags) = p..(p + Len(spoken) + 1)

ContextReportWritten == pc = "done" /\ renderer = "context" /\ result.returned = "path"

\* C30: whenever includes_conversation is set in the context-search metadata
\* the document holds a conversation transcript section after the last
\* search block, with one entry per system, user or assistant message in
\* conversation order; when it is not set, no transcript section is written.
C30_TranscriptWheneverFlagSet ==
    ContextReportWritten =>
        IF IncludesConversation THEN TranscriptInPlace
        ELSE Positions(TranscriptTags) = { }

\* C30 as the renderer has it: the transcript section is written when
\* includes_conversation is set and conversation_history holds at least one
\* message; with the flag unset, or with no message, there is no such section
C30_TranscriptWhenFlagSetAndMessages ==
    ContextReportWritten =>
        IF IncludesConversation /\ MetadataConversation # << >> THEN TranscriptInPlace
        ELSE Positions(TranscriptTags) = { }

\* a report of a conversational session: a search, the flag, three messages
C30_Witness ==
    /\ ContextReportWritten
    /\ search_history # << >>
    /\ IncludesConversation
    /\ MetadataConversation = ContextConversation
    /\ TranscriptInPlace

\* a message of another role between the others is left out of the section
C30_SkippedRoleWitness ==
    /\ ContextReportWritten
    /\ IncludesConversation
    /\ Len(SpokenFrom(1)) = 2 /\ Len(MetadataConversation) = 3
    /\ TranscriptInPlace

\* the flag is set, no message came with it: the report has no section
FlagSetWithoutMessages ==
    /\ ContextReportWritten
    /\ IncludesConversation
    /\ MetadataConversation = << >>
    /\ Positions(TranscriptTags) = { }

\* messages came without the flag: the report has no section
MessagesWithoutFlag ==
    /\ ContextReportWritten
    /\ ~ IncludesConversation
    /\ MetadataConversation # << >>
    /\ Positions(TranscriptTags) = { }

====
